---- MODULE Spec2Model ----
(***************************************************************************)
(* Crypto-Dashboard data pipeline: the retrying HTTP wrapper (withRetry),  *)
(* the query cache the hooks read through, the two-stage filter resolver   *)
(* (useCryptoFiltering), the chart query and its downsampling and          *)
(* validation, the refresh scheduler (useAutoRefresh) and the search bar.  *)
(***************************************************************************)
EXTENDS Integers, Sequences, FiniteSets, TLC

VARIABLES
    \* ---- withRetry (services/coingeckoApi) ----
    operation,     \* which transport call the wrapped closure makes
    timeframe,     \* the timeframe argument of fetchChartData
    maxRetries,    \* second argument of withRetry
    attempt,       \* loop counter of withRetry
    lastError,     \* lastError: ApiError | null
    pc,            \* position inside withRetry
    calls,         \* number of times operation() was invoked
    history,       \* raw outcome of every invocation, in order
    delays,        \* every delay(ms) awaited, in order
    result,        \* what withRetry settled with
    \* ---- useCryptoFiltering and the query cache behind its useQuery ----
    allCryptos,           \* the local snapshot handed to the hook (cryptos || [])
    filterType,           \* the selected filter (App currentFilter)
    minResultsThreshold,  \* config.minResultsThreshold of the hook instance
    queries,              \* query cache: one query per filteredCryptoKeys.byFilter key
    observer,             \* the hook's query observer: its current result
    lastQueryWithDefinedData, \* the last observed query that had data
    refreshKey,           \* key whose refetch a running refresh() is awaiting
    fetches,              \* number of query-function runs started so far
    \* ---- useCryptoData readers of the shared query cache ----
    mountedKey,           \* per reader: the query key it observes (<< >>: not mounted)
    readerResult,         \* per reader: the result its useQuery handed it last
    listQueries,          \* per client and key: the query's state
    listRuns,             \* per client and key: query-function runs started
    requested,            \* per key: the readers that asked for it so far
    resolved,             \* per key: whether any run for it has settled
    \* ---- useCryptoFiltering, the stage-1 memo on its own ----
    stage1Args,           \* allCryptos, filterType, config.dynamicThresholdPercentage
    stage1Memo,           \* what the useMemo holds: clientFiltered and threshold
    \* ---- App chart: useChartData behind selectedCrypto and timeframe ----
    selectedCrypto,       \* id of the selected coin ("": none selected)
    chartTimeframe,       \* App timeframe state
    chartQueries,         \* query cache: one query per chartKeys.byTimeframe key
    chartObserver,        \* the result useChartData returned in the last render
    chartLastQuery,       \* the observer's last observed query that had data
    chartFetches,         \* number of chart query-function runs started so far
    \* ---- useAutoRefresh ----
    strictDev,            \* whether React runs the StrictMode tree of a development build
    mounted,              \* whether the hook's component is mounted
    interval,             \* the interval argument, in milliseconds
    lastUpdated,          \* lastUpdated state, as the clock reading it was set from
    nextUpdateIn,         \* nextUpdateIn state: seconds to the next refresh
    isPaused,             \* isPaused state
    intervalRef,          \* intervalRef.current: a timer id, 0 for null
    countdownInterval,    \* the timer id the last effect's cleanup closes over, 0: none
    timers,               \* the ids of the interval timers that are active
    timersCreated,        \* number of setInterval calls so far (the last id given)
    now,                  \* the clock, in seconds
    onRefreshCalls,       \* number of times onRefreshRef.current was invoked
    \* ---- downsampleData: in transformChartData, then in PriceChart ----
    rawData,              \* the series handed to the first downsampleData call
    optimalPoints,        \* maxPoints of the first call
    optimizedData,        \* what the first call returned
    chartMaxPoints,       \* maxPoints of PriceChart's call
    downsampled,          \* what PriceChart's call returned
    \* ---- validateChartData ----
    validateInput,        \* the value handed to validateChartData
    validateResult,       \* what it returned ("none": not called)
    \* ---- one fetch of a query: the query function under the cache's retry ----
    qKind,                \* which query is fetched: listing, filtered listing, chart
    qPc,                  \* where the fetch is
    qRuns,                \* runs of the query function in this fetch
    qAttempt,             \* attempt of the withRetry loop of the current run
    qCalls,               \* transport calls issued in this fetch
    qLast,                \* raw outcome of the last transport call
    qResult,              \* what the fetch settled with: data or the error
    \* ---- SearchBar ----
    query,                \* query state: the text of the input
    results,              \* results state, with the query they were fetched for
    isOpen,               \* isOpen state
    searchIsLoading,      \* isLoading state of the search bar
    searchTimer,          \* the pending debounce timer and the query it closes over
    inFlight,             \* the queries whose search request is in flight
    searches,             \* number of search requests issued so far
    lastInput             \* the last handler the user triggered

vars_retry == <<operation, timeframe, maxRetries, attempt, lastError, pc,
                calls, history, delays, result>>

vars_filter == <<allCryptos, filterType, minResultsThreshold, queries, observer,
                 lastQueryWithDefinedData, refreshKey, fetches>>

vars_cache == <<mountedKey, readerResult, listQueries, listRuns, requested, resolved>>

vars_stage1 == <<stage1Args, stage1Memo>>

vars_chart == <<selectedCrypto, chartTimeframe, chartQueries, chartObserver,
                chartLastQuery, chartFetches>>

vars_refresh == <<strictDev, mounted, interval, lastUpdated, nextUpdateIn, isPaused,
                  intervalRef, countdownInterval, timers, timersCreated, now,
                  onRefreshCalls>>

vars_downsample == <<rawData, optimalPoints, optimizedData, chartMaxPoints,
                     downsampled>>

vars_validate == <<validateInput, validateResult>>

vars_fetch == <<qKind, qPc, qRuns, qAttempt, qCalls, qLast, qResult>>

vars_search == <<query, results, isOpen, searchIsLoading, searchTimer, inFlight,
                 searches, lastInput>>

\* validation, query fetch and search bar
vars_panel == <<vars_validate, vars_fetch, vars_search>>

\* the state of the presentation side: stage-1 memo, chart, refresh scheduler,
\* downsampling, and the panel
vars_view == <<vars_stage1, vars_chart, vars_refresh, vars_downsample, vars_panel>>

\* the state of the data side
vars_data == <<vars_retry, vars_filter, vars_cache>>

vars == <<vars_retry, vars_filter, vars_cache, vars_view>>

----------------------------------------------------------------------------
(* Bounds of the model *)

\* largest maxRetries argument explored (the default 3 and the callers' 2 lie inside)
MaxRetriesArg == 5
\* longest local snapshot explored
MaxLocal == 1
\* most query-function runs started in one behaviour
MaxFetches == 2
\* longest array handed to validateChartData
MaxValidateLen == 2
\* longest text typed into the search bar
MaxQueryLen == 2
\* most search requests issued in one behaviour
MaxSearches == 2
\* most runs of the listing query function per client and key
MaxRuns == 2
\* longest local record set handed to the stage-1 memo
MaxStage1Len == 4
\* most chart query-function runs started in one behaviour
MaxChartFetches == 3
\* longest series handed to downsampleData
MaxSeriesLen == 9
\* largest maxPoints argument of downsampleData
MaxPointsArg == 4
\* the clock reading the refresh scheduler is followed up to, in seconds
MaxClock == 5
\* most interval timers one scheduler creates in one behaviour
MaxTimers == 4
\* most invocations of the refresh callback in one behaviour
MaxRefreshCalls == 4

(* Program constants: utils/constants RETRY_CONFIG *)
MAX_RETRIES == 3
INITIAL_DELAY == 1000
MAX_DELAY == 10000
BACKOFF_MULTIPLIER == 2

\* utils/constants TIMEFRAMES: the known timeframe tags
TIMEFRAMES == {"1h", "24h", "7d", "30d", "1y"}

NoError == [status |-> -1, message |-> "null"]

(* Program constants: utils/constants FILTER_CONFIG *)
MIN_RESULTS_THRESHOLD == 5
\* DYNAMIC_THRESHOLD_PERCENTAGE = 0.1, kept as a percentage
DYNAMIC_THRESHOLD_PERCENT == 10

\* types FilterType
FilterTypes == {"all", "winners", "losers", "volume"}

\* a query's data: undefined, or a list of records
Undefined == [defined |-> FALSE, list |-> << >>]
Defined(l) == [defined |-> TRUE, list |-> l]

\* the state a query has when it is first built (no data, nothing running)
QueryInitial ==
    [status |-> "pending", fetchStatus |-> "idle", data |-> Undefined, error |-> FALSE]

\* the result an observer holds before anything was fetched
ResultInitial ==
    [status |-> "pending", fetchStatus |-> "idle", data |-> Undefined,
     error |-> FALSE, isPlaceholderData |-> FALSE]

\* the components that call useCryptoData
Readers == {"App", "Widget", "Sidebar"}

\* the QueryClient of main.tsx, and (for comparison) one private to a reader
Clients == {"queryClient"} \cup Readers

\* hooks/useCryptoData cryptoKeys.list
cryptoKeys_list(page, perPage) == <<"cryptocurrencies", "list", page, perPage>>

\* the (page, perPage) arguments in use: App's (1, 50), useTopCryptocurrencies' (1, 10)
ListArgs == {<<1, 50>>, <<1, 10>>}
ListKeys == {cryptoKeys_list(a[1], a[2]) : a \in ListArgs}

NoKey == << >>

\* the readers not in use
CacheParked ==
    /\ mountedKey = [r \in Readers |-> NoKey]
    /\ readerResult = [r \in Readers |-> ResultInitial]
    /\ listQueries = [ck \in Clients \X ListKeys |-> QueryInitial]
    /\ listRuns = [ck \in Clients \X ListKeys |-> 0]
    /\ requested = [k \in ListKeys |-> {}]
    /\ resolved = [k \in ListKeys |-> FALSE]

\* the filter hook not in use
FilterParked ==
    /\ allCryptos = << >>
    /\ filterType = "all"
    /\ minResultsThreshold = MIN_RESULTS_THRESHOLD
    /\ queries = [k \in FilterTypes |-> QueryInitial]
    /\ observer = ResultInitial
    /\ lastQueryWithDefinedData = "none"
    /\ refreshKey = "none"
    /\ fetches = 0

\* the stage-1 memo before its first computation
Stage1Idle ==
    [computed |-> FALSE, clientFiltered |-> << >>, threshold |-> 0]

\* the stage-1 memo not in use
Stage1Parked ==
    /\ stage1Args = [allCryptos |-> << >>, filterType |-> "all",
                     dynamicThresholdPercentage |-> DYNAMIC_THRESHOLD_PERCENT]
    /\ stage1Memo = Stage1Idle

\* the coins a chart is asked for, and "" for selectedCrypto = null
ChartCoins == {"bitcoin", "ethereum"}
NoCoin == ""

\* the timeframes the selector switches between
ChartTimeframes == {"24h", "7d"}

\* hooks chartKeys.byTimeframe(coinId || '', timeframe)
chartKeys_byTimeframe(coinId, tf) == <<"charts", coinId, tf>>

ChartKeys ==
    {chartKeys_byTimeframe(c, tf) : c \in ChartCoins \cup {NoCoin}, tf \in ChartTimeframes}

\* App before any selection: selectedCrypto null, timeframe '24h'
ChartParked ==
    /\ selectedCrypto = NoCoin
    /\ chartTimeframe = "24h"
    /\ chartQueries = [k \in ChartKeys |-> QueryInitial]
    /\ chartObserver = ResultInitial
    /\ chartLastQuery = NoKey
    /\ chartFetches = 0

\* the interval App passes to useAutoRefresh
REFRESH_INTERVAL == 60000

\* intervalRef.current = null
NoTimer == 0

\* useAutoRefresh before its component is rendered
RefreshParked ==
    /\ strictDev = FALSE
    /\ mounted = FALSE
    /\ interval = REFRESH_INTERVAL
    /\ lastUpdated = 0
    /\ nextUpdateIn = REFRESH_INTERVAL \div 1000
    /\ isPaused = FALSE
    /\ intervalRef = NoTimer
    /\ countdownInterval = NoTimer
    /\ timers = {}
    /\ timersCreated = 0
    /\ now = 0
    /\ onRefreshCalls = 0

\* a downsampleData call that has not been made
NotCalled == [done |-> FALSE, points |-> << >>]

\* no series being downsampled
DownsampleParked ==
    /\ rawData = << >>
    /\ optimalPoints = 0
    /\ optimizedData = NotCalled
    /\ chartMaxPoints = 0
    /\ downsampled = NotCalled

\* the presentation side not in use
\* validateChartData not called
ValidateParked ==
    /\ validateInput = [isArray |-> FALSE, items |-> << >>]
    /\ validateResult = "none"

\* no fetch under way
FetchParked ==
    /\ qKind = "none"
    /\ qPc = "idle"
    /\ qRuns = 0
    /\ qAttempt = 0
    /\ qCalls = 0
    /\ qLast = [kind |-> "none", response |-> FALSE, status |-> 0, error |-> ""]
    /\ qResult = [status |-> "pending", instanceOfError |-> FALSE, message |-> "",
                  detail |-> ""]

\* the search bar not mounted
SearchParked ==
    /\ query = << >>
    /\ results = [query |-> << >>, coins |-> 0]
    /\ isOpen = FALSE
    /\ searchIsLoading = FALSE
    /\ searchTimer = [pending |-> FALSE, query |-> << >>]
    /\ inFlight = {}
    /\ searches = 0
    /\ lastInput = "none"

PanelParked == ValidateParked /\ FetchParked /\ SearchParked

ViewParked ==
    Stage1Parked /\ ChartParked /\ RefreshParked /\ DownsampleParked /\ PanelParked

\* withRetry not in use
RetryParked ==
    /\ operation = "fetchCryptocurrencies"
    /\ timeframe = "24h"
    /\ maxRetries = MAX_RETRIES
    /\ attempt = 0
    /\ lastError = NoError
    /\ pc = "idle"
    /\ calls = 0
    /\ history = << >>
    /\ delays = << >>
    /\ result = "pending"

----------------------------------------------------------------------------
(* Helpers *)

RECURSIVE Pow(_, _)
Pow(b, e) == IF e = 0 THEN 1 ELSE b * Pow(b, e - 1)

Min(a, b) == IF a <= b THEN a ELSE b

----------------------------------------------------------------------------
(* Transport outcomes: what one invocation of the wrapped operation can do *)

\* response.data.error of a response whose body has no error field
NoBodyError == ""
\* the texts a server puts in the error field of a response body
ServerTexts == {"server text"}

\* an AxiosError with a response of the given HTTP status and body error field
HttpErrorBody(s, text) ==
    [kind |-> "axios", response |-> TRUE, status |-> s, error |-> text]
\* an AxiosError with a response of the given HTTP status, no error field
HttpError(s) == HttpErrorBody(s, NoBodyError)
\* an AxiosError with no response (network failure, timeout)
NetworkError ==
    [kind |-> "axios", response |-> FALSE, status |-> 0, error |-> NoBodyError]
\* any other thrown value (a plain Error)
PlainError(name) ==
    [kind |-> name, response |-> FALSE, status |-> 0, error |-> NoBodyError]

Success == [kind |-> "ok", response |-> TRUE, status |-> 200, error |-> NoBodyError]

HttpStatuses == {400, 404, 429, 500, 503}

\* the statuses the model also answers with an error field in the body: one
\* that is not retried, the rate limit, and one that is retried
BodyErrorStatuses == {404, 429, 500}

TransportOutcomes ==
    {Success, NetworkError}
        \cup {HttpError(s) : s \in HttpStatuses}
        \cup {HttpErrorBody(s, text) : s \in BodyErrorStatuses, text \in ServerTexts}

\* fetchChartData: an unknown timeframe throws before any request is made
fetchChartData(tf) ==
    IF tf \notin TIMEFRAMES
    THEN {PlainError("InvalidTimeframe")}
    ELSE TransportOutcomes

\* fetchCryptocurrencies: one GET, no local checks
fetchCryptocurrencies == TransportOutcomes

OperationOutcomes(op, tf) ==
    IF op = "fetchChartData" THEN fetchChartData(tf) ELSE fetchCryptocurrencies

----------------------------------------------------------------------------
(* handleApiError: classification of a thrown value into an ApiError *)

\* the entries of ERROR_MESSAGES
ERROR_MESSAGES ==
    {"API_UNAVAILABLE", "RATE_LIMIT", "NETWORK_ERROR", "NOT_FOUND", "GENERIC"}

\* "Otros errores HTTP": message: responseData?.error || ERROR_MESSAGES.GENERIC
OtherHttpMessage(error) ==
    IF error.error # NoBodyError THEN error.error ELSE "GENERIC"

\* the message field names the entry of ERROR_MESSAGES it was taken from;
\* any other string is the text itself
handleApiError(error) ==
    IF error.kind = "axios"
    THEN LET status == IF error.response THEN error.status ELSE 0
         IN  IF status = 429
             THEN [status |-> 429, message |-> "RATE_LIMIT"]
             ELSE IF ~error.response
             THEN [status |-> 0, message |-> "NETWORK_ERROR"]
             ELSE [status |-> status, message |-> OtherHttpMessage(error)]
    ELSE [status |-> 500, message |-> "GENERIC"]

----------------------------------------------------------------------------
(* withRetry *)

\* "No reintentar en errores 4xx (cliente)"
IsClientErrorOffByOne(err) == err.status > 400 /\ err.status < 500 /\ err.status # 429
IsClientError(err) == err.status >= 400 /\ err.status < 500 /\ err.status # 429

\* "Si es el ultimo intento, lanzar el error"
IsLastAttemptEarly(a, m) == a >= m - 1
IsLastAttempt(a, m) == a = m

\* the delay awaited after failed attempt a
RetryDelayUncapped(a) == INITIAL_DELAY * Pow(BACKOFF_MULTIPLIER, a)
RetryDelay(a) == Min(INITIAL_DELAY * Pow(BACKOFF_MULTIPLIER, a), MAX_DELAY)

\* utils/formatters getRetryDelay: the same schedule, with its own literals
getRetryDelay(a) == Min(1000 * Pow(2, a), 10000)

\* attempt++ of the for loop
NextAttemptStuck(a) == a
NextAttempt(a) == a + 1

RetryInit ==
    /\ operation \in {"fetchCryptocurrencies", "fetchChartData"}
    /\ timeframe \in {"24h", "bogus"}
    /\ (operation = "fetchCryptocurrencies" => timeframe = "24h")
    /\ maxRetries \in -1 .. MaxRetriesArg
    /\ attempt = 0
    /\ lastError = NoError
    /\ pc = "loop"
    /\ calls = 0
    /\ history = << >>
    /\ delays = << >>
    /\ result = "pending"
    /\ FilterParked
    /\ CacheParked
    /\ ViewParked

\* one pass of the loop body: await operation(), then the catch block
Attempt ==
    /\ pc = "loop"
    /\ attempt <= maxRetries
    /\ \E o \in OperationOutcomes(operation, timeframe) :
         /\ calls' = calls + 1
         /\ history' = Append(history, o)
         /\ IF o.kind = "ok"
            THEN /\ pc' = "returned"
                 /\ result' = "value"
                 /\ UNCHANGED <<lastError, delays>>
            ELSE LET err == handleApiError(o) IN
                 /\ lastError' = err
                 /\ IF IsClientError(err) \/ IsLastAttempt(attempt, maxRetries)
                    THEN /\ pc' = "thrown"
                         /\ result' = "error"
                         /\ UNCHANGED delays
                    ELSE /\ pc' = "delay"
                         /\ delays' = Append(delays, RetryDelay(attempt))
                         /\ UNCHANGED result
    /\ UNCHANGED <<operation, timeframe, maxRetries, attempt>>
    /\ UNCHANGED <<vars_filter, vars_cache, vars_view>>

\* the awaited delay elapses; the loop increments attempt and goes round
DelayElapsed ==
    /\ pc = "delay"
    /\ attempt' = NextAttempt(attempt)
    /\ pc' = "loop"
    /\ UNCHANGED <<operation, timeframe, maxRetries, lastError, calls,
                   history, delays, result>>
    /\ UNCHANGED <<vars_filter, vars_cache, vars_view>>

\* the loop condition fails: throw lastError || new Error(GENERIC)
LoopExit ==
    /\ pc = "loop"
    /\ ~(attempt <= maxRetries)
    /\ pc' = "thrown"
    /\ result' = "error"
    /\ lastError' = IF lastError = NoError
                    THEN [status |-> -1, message |-> "GENERIC"]
                    ELSE lastError
    /\ UNCHANGED <<operation, timeframe, maxRetries, attempt, calls,
                   history, delays>>
    /\ UNCHANGED <<vars_filter, vars_cache, vars_view>>

RetryNext == Attempt \/ DelayElapsed \/ LoopExit

SpecRetry == RetryInit /\ [][RetryNext]_vars

----------------------------------------------------------------------------
(* Listing records *)

\* c.price_change_percentage_24h ?? 0
Change(c) == IF c.hasChange THEN c.change ELSE 0

Coin(has, chg, vol) == [hasChange |-> has, change |-> chg, volume |-> vol]

\* the records a local listing page is built from
LocalRecords ==
    {Coin(TRUE, 2, 1), Coin(TRUE, -1, 2), Coin(FALSE, 0, 3)}

\* every snapshot useCryptoData can hand over, the empty one included
Snapshots == UNION {[1 .. n -> LocalRecords] : n \in 0 .. MaxLocal}

\* expanded pages fetchCryptocurrencies(1, 100) can answer with: one with a
\* winner and a loser, one with neither
RemotePayloads ==
    { <<Coin(TRUE, 3, 5), Coin(TRUE, -3, 4)>>, <<Coin(FALSE, 0, 6)>> }

\* Array.prototype.sort comparators of the hook, as an ascending key
SortKey(c, ft) ==
    IF ft = "winners" THEN 0 - Change(c)
    ELSE IF ft = "losers" THEN Change(c)
    ELSE 0 - c.volume

\* x placed after the elements that do not sort after it (sort is stable)
Insert(x, sorted, ft) ==
    LET k == Cardinality({i \in 1 .. Len(sorted) : SortKey(sorted[i], ft) <= SortKey(x, ft)})
    IN  SubSeq(sorted, 1, k) \o <<x>> \o SubSeq(sorted, k + 1, Len(sorted))

RECURSIVE Sort(_, _)
Sort(seq, ft) ==
    IF seq = << >> THEN << >>
    ELSE Insert(seq[Len(seq)], Sort(SubSeq(seq, 1, Len(seq) - 1), ft), ft)

\* Math.ceil(a / b) for a >= 0, b > 0
CeilDiv(a, b) == (a + b - 1) \div b

----------------------------------------------------------------------------
(* useCryptoFiltering, stage 1: filtering of the local snapshot *)

\* the predicate of the second switch without its sign test
PassesThresholdNoSign(c, ft, threshold) ==
    IF ft = "winners" THEN Change(c) >= threshold
    ELSE IF ft = "losers" THEN Change(c) <= threshold
    ELSE c.volume >= threshold

\* the predicate of the second switch: threshold side and sign
PassesThreshold(c, ft, threshold) ==
    IF ft = "winners" THEN Change(c) >= threshold /\ Change(c) > 0
    ELSE IF ft = "losers" THEN Change(c) <= threshold /\ Change(c) < 0
    ELSE c.volume >= threshold

\* the useMemo of stage 1 for a percentage given as pct/100; the products
\* length * percentage explored here are exact in double arithmetic, so
\* Math.ceil is the integer ceiling
Stage1Pct(all, ft, pct) ==
    IF Len(all) = 0 THEN [clientFiltered |-> << >>, threshold |-> 0]
    ELSE IF ft = "all" THEN [clientFiltered |-> all, threshold |-> 0]
    ELSE
      LET thresholdIndex == CeilDiv(Len(all) * pct, 100)
          sorted == Sort(all, ft)
          calculatedThreshold ==
              IF thresholdIndex + 1 <= Len(sorted)
              THEN IF ft = "volume" THEN sorted[thresholdIndex + 1].volume
                   ELSE Change(sorted[thresholdIndex + 1])
              ELSE 0
      IN  [clientFiltered |->
               SelectSeq(all, LAMBDA c : PassesThreshold(c, ft, calculatedThreshold)),
           threshold |-> calculatedThreshold]

\* stage 1 with the default FILTER_CONFIG.DYNAMIC_THRESHOLD_PERCENTAGE
Stage1(all, ft) == Stage1Pct(all, ft, DYNAMIC_THRESHOLD_PERCENT)

\* needsApiCall for a given snapshot and filter
needsApiCallInclusive(all, ft) ==
    IF ft = "all" THEN FALSE
    ELSE Len(Stage1(all, ft).clientFiltered) <= minResultsThreshold
needsApiCallOf(all, ft) ==
    IF ft = "all" THEN FALSE
    ELSE Len(Stage1(all, ft).clientFiltered) < minResultsThreshold

\* queryFn of the hook's useQuery, applied to the expanded page
RemoteFilter(ft, expandedData) ==
    IF ft = "winners"
    THEN Sort(SelectSeq(expandedData, LAMBDA c : Change(c) > 0), ft)
    ELSE IF ft = "losers"
    THEN Sort(SelectSeq(expandedData, LAMBDA c : Change(c) < 0), ft)
    ELSE IF ft = "volume"
    THEN Sort(expandedData, ft)
    ELSE expandedData

----------------------------------------------------------------------------
(* The query cache and the observer behind useQuery *)

\* a run of the query function starts
FetchStarted(q) ==
    [q EXCEPT !.fetchStatus = "fetching",
              !.status = IF q.data.defined THEN q.status ELSE "pending",
              !.error = IF q.data.defined THEN q.error ELSE FALSE]

\* the query function resolved with list d
FetchSucceeded(q, d) ==
    [status |-> "success", fetchStatus |-> "idle", data |-> Defined(d), error |-> FALSE]

\* the query function rejected (retry: false, so the first rejection is final)
FetchFailed(q) ==
    [q EXCEPT !.status = "error", !.fetchStatus = "idle", !.error = TRUE]

\* a fetch is asked of query k: a run in flight is joined, unless the caller
\* cancels refetches and there is data; runs counts the runs started
Fetch(qs, k, cancelRefetch) ==
    IF qs[k].fetchStatus = "fetching" /\ ~(cancelRefetch /\ qs[k].data.defined)
    THEN [qs |-> qs, runs |-> 0]
    ELSE [qs |-> [qs EXCEPT ![k] = FetchStarted(qs[k])], runs |-> 1]

NoFetch(qs) == [qs |-> qs, runs |-> 0]

\* defaultOptions.queries.placeholderData: (previousData) => previousData
placeholderData(previousData) == previousData

\* the result the observer hands to the hook for query q
CreateResult(q, prevResult, previousData) ==
    LET placeholder ==
            IF prevResult.isPlaceholderData THEN prevResult.data
            ELSE placeholderData(previousData)
    IN  IF ~q.data.defined /\ q.status = "pending" /\ placeholder.defined
        THEN [status |-> "success", fetchStatus |-> q.fetchStatus, data |-> placeholder,
              error |-> q.error, isPlaceholderData |-> TRUE]
        ELSE [status |-> q.status, fetchStatus |-> q.fetchStatus, data |-> q.data,
              error |-> q.error, isPlaceholderData |-> FALSE]

\* the data of the last observed query that had some
PreviousData(qs, last) == IF last = "none" THEN Undefined ELSE qs[last].data

\* the observer follows query ft of cache qs: new result, new last-with-data
Observe(qs, ft) ==
    /\ observer' = CreateResult(qs[ft], observer, PreviousData(qs, lastQueryWithDefinedData))
    /\ lastQueryWithDefinedData' =
           IF qs[ft].data.defined THEN ft ELSE lastQueryWithDefinedData

----------------------------------------------------------------------------
(* useCryptoFiltering: what the hook computes in a render *)

clientFiltered == Stage1(allCryptos, filterType).clientFiltered
threshold == Stage1(allCryptos, filterType).threshold

needsApiCall == needsApiCallOf(allCryptos, filterType)

apiData == observer.data
apiError == observer.error
isApiLoading == observer.fetchStatus = "fetching" /\ observer.status = "pending"

\* stage 3: the list handed to the UI
filteredCryptosAnyApiData ==
    IF ~needsApiCall THEN clientFiltered
    ELSE IF apiData.defined THEN apiData.list
    ELSE clientFiltered
filteredCryptos ==
    IF ~needsApiCall THEN clientFiltered
    ELSE IF apiData.defined /\ Len(apiData.list) > 0 THEN apiData.list
    ELSE clientFiltered

\* filteringState.isClientFiltering
isClientFiltering == ~needsApiCall \/ ~apiData.defined

isLoading == isApiLoading /\ needsApiCall
isError == apiError

----------------------------------------------------------------------------
(* useCryptoFiltering: events *)

FilterInit ==
    /\ allCryptos = << >>
    /\ filterType = "all"
    /\ minResultsThreshold \in {0, 1, MIN_RESULTS_THRESHOLD}
    /\ queries = [k \in FilterTypes |-> QueryInitial]
    /\ observer = ResultInitial
    /\ lastQueryWithDefinedData = "none"
    /\ refreshKey = "none"
    /\ fetches = 0
    /\ RetryParked
    /\ CacheParked
    /\ ViewParked

\* the fetch the observer starts by itself when its options change: the key
\* changed or the query was disabled, it is enabled now, and the data is
\* missing or older than staleTime (stale: whether that much time has passed)
OptionalFetch(qs, ft, keyChanged, wasEnabled, enabled, stale) ==
    IF (keyChanged \/ ~wasEnabled) /\ enabled /\ (~qs[ft].data.defined \/ stale)
    THEN Fetch(qs, ft, FALSE)
    ELSE NoFetch(qs)

\* whether staleTime has passed since the data arrived: either, when there is
\* data; without data the query is stale whatever the time
StaleChoices(q) == IF q.data.defined THEN BOOLEAN ELSE {TRUE}

\* handleFilterChange: the user selects another filter
SetFilter(ft) ==
    /\ ft # filterType
    /\ \E stale \in StaleChoices(queries[ft]) :
         LET f == OptionalFetch(queries, ft, TRUE, needsApiCall,
                                needsApiCallOf(allCryptos, ft), stale)
         IN  /\ fetches + f.runs <= MaxFetches
             /\ filterType' = ft
             /\ queries' = f.qs
             /\ fetches' = fetches + f.runs
             /\ Observe(f.qs, ft)
    /\ UNCHANGED <<allCryptos, minResultsThreshold, refreshKey>>
    /\ UNCHANGED <<vars_retry, vars_cache, vars_view>>

\* useCryptoData delivers a new listing: the hook re-renders with it
UpdateSnapshot(snapshot) ==
    /\ snapshot # allCryptos
    /\ \E stale \in StaleChoices(queries[filterType]) :
         LET f == OptionalFetch(queries, filterType, FALSE, needsApiCall,
                                needsApiCallOf(snapshot, filterType), stale)
         IN  /\ fetches + f.runs <= MaxFetches
             /\ allCryptos' = snapshot
             /\ queries' = f.qs
             /\ fetches' = fetches + f.runs
             /\ Observe(f.qs, filterType)
    /\ UNCHANGED <<filterType, minResultsThreshold, refreshKey>>
    /\ UNCHANGED <<vars_retry, vars_cache, vars_view>>

\* refresh(), up to its first await: invalidateQueries refetches the key
Refresh ==
    /\ needsApiCall
    /\ refreshKey = "none"
    /\ LET f == Fetch(queries, filterType, TRUE)
       IN  /\ fetches + f.runs <= MaxFetches
           /\ queries' = f.qs
           /\ fetches' = fetches + f.runs
           /\ Observe(f.qs, filterType)
    /\ refreshKey' = filterType
    /\ UNCHANGED <<allCryptos, filterType, minResultsThreshold>>
    /\ UNCHANGED <<vars_retry, vars_cache, vars_view>>

\* the run of query k settles into qs; a refresh() awaiting it goes on to
\* refetch(), which fetches whatever query the observer holds by then
Settled(k, qs) ==
    LET f == IF refreshKey = k THEN Fetch(qs, filterType, TRUE) ELSE NoFetch(qs)
    IN  /\ fetches + f.runs <= MaxFetches
        /\ queries' = f.qs
        /\ fetches' = fetches + f.runs
        /\ Observe(f.qs, filterType)
        /\ refreshKey' = IF refreshKey = k THEN "none" ELSE refreshKey
        /\ UNCHANGED <<allCryptos, filterType, minResultsThreshold>>
        /\ UNCHANGED <<vars_retry, vars_cache, vars_view>>

\* withRetry returned the expanded page; the query function filters it
FetchSucceeds(k, expandedData) ==
    /\ queries[k].fetchStatus = "fetching"
    /\ Settled(k, [queries EXCEPT ![k] = FetchSucceeded(queries[k], RemoteFilter(k, expandedData))])

\* withRetry threw after its last attempt
FetchFails(k) ==
    /\ queries[k].fetchStatus = "fetching"
    /\ Settled(k, [queries EXCEPT ![k] = FetchFailed(queries[k])])

\* gcTime passed for a query nobody observes: it is dropped from the cache
GarbageCollect(k) ==
    /\ k # filterType
    /\ k # lastQueryWithDefinedData
    /\ k # refreshKey
    /\ queries[k].fetchStatus = "idle"
    /\ queries[k] # QueryInitial
    /\ queries' = [queries EXCEPT ![k] = QueryInitial]
    /\ UNCHANGED <<allCryptos, filterType, minResultsThreshold, observer,
                   lastQueryWithDefinedData, refreshKey, fetches>>
    /\ UNCHANGED <<vars_retry, vars_cache, vars_view>>

FilterNext ==
    \/ \E ft \in FilterTypes : SetFilter(ft)
    \/ \E snapshot \in Snapshots : UpdateSnapshot(snapshot)
    \/ Refresh
    \/ \E k \in FilterTypes, p \in RemotePayloads : FetchSucceeds(k, p)
    \/ \E k \in FilterTypes : FetchFails(k)
    \/ \E k \in FilterTypes : GarbageCollect(k)

SpecFilter == FilterInit /\ [][FilterNext]_vars

----------------------------------------------------------------------------
(* useCryptoData: several components reading the listing through one cache *)

\* the client a reader's useQuery talks to: the one QueryClientProvider gives
ClientOfOwn(r) == r
ClientOf(r) == "queryClient"

\* the query a reader observes
QueryOf(qs, mk, r) == qs[<<ClientOf(r), mk[r]>>]

\* what useQuery hands reader r for cache qs
ReaderResult(qs, mk, r) ==
    IF mk[r] = NoKey THEN ResultInitial
    ELSE CreateResult(QueryOf(qs, mk, r), ResultInitial, Undefined)

\* every reader re-renders from the cache
Deliver(qs, mk) ==
    readerResult' = [r \in Readers |-> ReaderResult(qs, mk, r)]

CacheInit ==
    /\ CacheParked
    /\ RetryParked
    /\ FilterParked
    /\ ViewParked

\* a component calling useCryptoData(page, perPage) mounts
Mount(r, page, perPage) ==
    /\ mountedKey[r] = NoKey
    /\ LET k == cryptoKeys_list(page, perPage)
           ck == <<ClientOf(r), k>>
           mk == [mountedKey EXCEPT ![r] = k]
       IN  \E stale \in StaleChoices(listQueries[ck]) :
             LET f == IF ~listQueries[ck].data.defined \/ stale
                      THEN Fetch(listQueries, ck, FALSE)
                      ELSE NoFetch(listQueries)
             IN  /\ listRuns[ck] + f.runs <= MaxRuns
                 /\ mountedKey' = mk
                 /\ listQueries' = f.qs
                 /\ listRuns' = [listRuns EXCEPT ![ck] = @ + f.runs]
                 /\ requested' = [requested EXCEPT ![k] = @ \cup {r}]
                 /\ Deliver(f.qs, mk)
    /\ UNCHANGED resolved
    /\ UNCHANGED <<vars_retry, vars_filter, vars_view>>

\* the component unmounts
Unmount(r) ==
    /\ mountedKey[r] # NoKey
    /\ mountedKey' = [mountedKey EXCEPT ![r] = NoKey]
    /\ Deliver(listQueries, mountedKey')
    /\ UNCHANGED <<listQueries, listRuns, requested, resolved>>
    /\ UNCHANGED <<vars_retry, vars_filter, vars_view>>

\* refetchInterval fires, or a reader calls refetch()
Refetch(r) ==
    /\ mountedKey[r] # NoKey
    /\ LET ck == <<ClientOf(r), mountedKey[r]>>
           f == Fetch(listQueries, ck, TRUE)
       IN  /\ listRuns[ck] + f.runs <= MaxRuns
           /\ listQueries' = f.qs
           /\ listRuns' = [listRuns EXCEPT ![ck] = @ + f.runs]
           /\ Deliver(f.qs, mountedKey)
    /\ UNCHANGED <<mountedKey, requested, resolved>>
    /\ UNCHANGED <<vars_retry, vars_filter, vars_view>>

\* withRetry(() => fetchCryptocurrencies(page, perPage)) returned a page
ListFetchSucceeds(ck, page) ==
    /\ listQueries[ck].fetchStatus = "fetching"
    /\ listQueries' = [listQueries EXCEPT ![ck] = FetchSucceeded(@, page)]
    /\ resolved' = [resolved EXCEPT ![ck[2]] = TRUE]
    /\ Deliver(listQueries', mountedKey)
    /\ UNCHANGED <<mountedKey, listRuns, requested>>
    /\ UNCHANGED <<vars_retry, vars_filter, vars_view>>

\* withRetry threw
ListFetchFails(ck) ==
    /\ listQueries[ck].fetchStatus = "fetching"
    /\ listQueries' = [listQueries EXCEPT ![ck] = FetchFailed(@)]
    /\ resolved' = [resolved EXCEPT ![ck[2]] = TRUE]
    /\ Deliver(listQueries', mountedKey)
    /\ UNCHANGED <<mountedKey, listRuns, requested>>
    /\ UNCHANGED <<vars_retry, vars_filter, vars_view>>

CacheNext ==
    \/ \E r \in Readers, a \in ListArgs : Mount(r, a[1], a[2])
    \/ \E r \in Readers : Unmount(r)
    \/ \E r \in Readers : Refetch(r)
    \/ \E ck \in Clients \X ListKeys, page \in RemotePayloads : ListFetchSucceeds(ck, page)
    \/ \E ck \in Clients \X ListKeys : ListFetchFails(ck)

SpecCache == CacheInit /\ [][CacheNext]_vars

----------------------------------------------------------------------------
(* useCryptoFiltering, stage 1 on its own: every record set and percentage *)

\* records with a gain, a loss, no movement and an unknown (null) change
Stage1Records ==
    {Coin(TRUE, 2, 1), Coin(TRUE, 1, 2), Coin(TRUE, 0, 3),
     Coin(TRUE, -1, 4), Coin(TRUE, -2, 5), Coin(FALSE, 0, 6)}

Stage1Sets == UNION {[1 .. n -> Stage1Records] : n \in 0 .. MaxStage1Len}

\* options.dynamicThresholdPercentage, in percent: the default, a half, all
Percentages == {DYNAMIC_THRESHOLD_PERCENT, 50, 100}

Stage1Init ==
    /\ stage1Args \in [allCryptos : Stage1Sets, filterType : FilterTypes,
                       dynamicThresholdPercentage : Percentages]
    /\ stage1Memo = Stage1Idle
    /\ RetryParked
    /\ FilterParked
    /\ CacheParked
    /\ ChartParked
    /\ RefreshParked
    /\ DownsampleParked
    /\ PanelParked

\* the memo's function runs with the current dependencies
Stage1Compute(args) ==
    LET r == Stage1Pct(args.allCryptos, args.filterType,
                       args.dynamicThresholdPercentage)
    IN  [computed |-> TRUE, clientFiltered |-> r.clientFiltered,
         threshold |-> r.threshold]

\* first render: the memo is computed
Stage1Render ==
    /\ ~stage1Memo.computed
    /\ stage1Memo' = Stage1Compute(stage1Args)
    /\ UNCHANGED <<stage1Args, vars_data, vars_panel, vars_chart, vars_refresh, vars_downsample>>

\* the filterType dependency changes and the memo is recomputed
Stage1SetFilter(ft) ==
    /\ stage1Memo.computed
    /\ ft # stage1Args.filterType
    /\ stage1Args' = [stage1Args EXCEPT !.filterType = ft]
    /\ stage1Memo' = Stage1Compute(stage1Args')
    /\ UNCHANGED <<vars_data, vars_panel, vars_chart, vars_refresh, vars_downsample>>

Stage1Next ==
    \/ Stage1Render
    \/ \E ft \in FilterTypes : Stage1SetFilter(ft)

SpecStage1 == Stage1Init /\ [][Stage1Next]_vars

----------------------------------------------------------------------------
(* App chart: useChartData keyed by (selectedCrypto, timeframe) *)

\* what fetchChartData answers at a given moment for a key: the series is
\* kept as one point tagged with the key it was fetched for and the answer
ChartAnswers == {1, 2}
ChartSeries(k, answer) == <<[coinId |-> k[2], timeframe |-> k[3], price |-> answer]>>

\* the key useChartData builds in the current render
chartKey == chartKeys_byTimeframe(selectedCrypto, chartTimeframe)

\* enabled: !!coinId && coinId.length > 0
chartEnabled(coinId) == coinId # NoCoin

\* placeholderData: (prev) => prev, a new function in every render, so the
\* observer recomputes it from the last query with data each time
chartPlaceholderData(prev) == prev

\* the result useQuery returns in a render for query q
ChartResult(q, previousData) ==
    LET placeholder == chartPlaceholderData(previousData)
    IN  IF ~q.data.defined /\ q.status = "pending" /\ placeholder.defined
        THEN [status |-> "success", fetchStatus |-> q.fetchStatus, data |-> placeholder,
              error |-> q.error, isPlaceholderData |-> TRUE]
        ELSE [status |-> q.status, fetchStatus |-> q.fetchStatus, data |-> q.data,
              error |-> q.error, isPlaceholderData |-> FALSE]

ChartPreviousData(qs, last) == IF last = NoKey THEN Undefined ELSE qs[last].data

\* a render of App: the observer follows query k of cache qs
ChartObserve(qs, k) ==
    /\ chartObserver' = ChartResult(qs[k], ChartPreviousData(qs, chartLastQuery))
    /\ chartLastQuery' = IF qs[k].data.defined THEN k ELSE chartLastQuery

\* data: chartData of the last render
chartData == chartObserver.data

\* displayChartData?.data || []: the series PriceChart is given
displayChartData ==
    IF selectedCrypto # NoCoin /\ chartData.defined THEN chartData.list ELSE << >>

ChartInit ==
    /\ ChartParked
    /\ Stage1Parked
    /\ RefreshParked
    /\ DownsampleParked
    /\ RetryParked
    /\ FilterParked
    /\ CacheParked
    /\ PanelParked

\* the selection or the timeframe changes to (c, tf): the observer moves to
\* the new key and fetches it if it is enabled and has no fresh data
ChartKeyChange(c, tf) ==
    LET k == chartKeys_byTimeframe(c, tf)
    IN  \E stale \in StaleChoices(chartQueries[k]) :
          LET f == OptionalFetch(chartQueries, k, TRUE, chartEnabled(selectedCrypto),
                                 chartEnabled(c), stale)
          IN  /\ chartFetches + f.runs <= MaxChartFetches
              /\ selectedCrypto' = c
              /\ chartTimeframe' = tf
              /\ chartQueries' = f.qs
              /\ chartFetches' = chartFetches + f.runs
              /\ ChartObserve(f.qs, k)
              /\ UNCHANGED <<vars_data, vars_panel, vars_stage1, vars_refresh, vars_downsample>>

\* handleSelectCrypto / handleSearchSelect: setSelectedCrypto(crypto)
SelectCrypto(c) ==
    /\ c # selectedCrypto
    /\ ChartKeyChange(c, chartTimeframe)

\* handleClearSelection: setSelectedCrypto(null)
ClearSelection ==
    /\ selectedCrypto # NoCoin
    /\ ChartKeyChange(NoCoin, chartTimeframe)

\* handleTimeframeChange: setTimeframe(tf)
TimeframeChange(tf) ==
    /\ tf # chartTimeframe
    /\ ChartKeyChange(selectedCrypto, tf)

\* handleChartRetry: refetchChart(), offered by PriceChart when isError
ChartRetry ==
    /\ chartObserver.status = "error"
    /\ LET f == Fetch(chartQueries, chartKey, TRUE)
       IN  /\ chartFetches + f.runs <= MaxChartFetches
           /\ chartQueries' = f.qs
           /\ chartFetches' = chartFetches + f.runs
           /\ ChartObserve(f.qs, chartKey)
    /\ UNCHANGED <<selectedCrypto, chartTimeframe>>
    /\ UNCHANGED <<vars_data, vars_panel, vars_stage1, vars_refresh, vars_downsample>>

\* the run of query k settled into qs: the query notifies its observers, and
\* the hook's observer is subscribed to the current key's query only
ChartSettled(k, qs) ==
    /\ chartQueries' = qs
    /\ IF k = chartKey
       THEN ChartObserve(qs, chartKey)
       ELSE UNCHANGED <<chartObserver, chartLastQuery>>
    /\ UNCHANGED <<selectedCrypto, chartTimeframe, chartFetches>>
    /\ UNCHANGED <<vars_data, vars_panel, vars_stage1, vars_refresh, vars_downsample>>

\* withRetry returned the raw series and transformChartData shaped it
ChartFetchSucceeds(k, answer) ==
    /\ chartQueries[k].fetchStatus = "fetching"
    /\ ChartSettled(k, [chartQueries EXCEPT
                           ![k] = FetchSucceeded(chartQueries[k], ChartSeries(k, answer))])

\* the query function threw for the last time
ChartFetchFails(k) ==
    /\ chartQueries[k].fetchStatus = "fetching"
    /\ ChartSettled(k, [chartQueries EXCEPT ![k] = FetchFailed(chartQueries[k])])

\* App renders again for another reason (the countdown of useAutoRefresh
\* changes every second, a listing arrives): useChartData runs again
ChartRerender ==
    /\ ChartObserve(chartQueries, chartKey)
    /\ UNCHANGED <<selectedCrypto, chartTimeframe, chartQueries, chartFetches>>
    /\ UNCHANGED <<vars_data, vars_panel, vars_stage1, vars_refresh, vars_downsample>>

\* gcTime (10 minutes) passed for a query nobody observes
ChartGarbageCollect(k) ==
    /\ k # chartKey
    /\ k # chartLastQuery
    /\ chartQueries[k].fetchStatus = "idle"
    /\ chartQueries[k] # QueryInitial
    /\ chartQueries' = [chartQueries EXCEPT ![k] = QueryInitial]
    /\ UNCHANGED <<selectedCrypto, chartTimeframe, chartObserver, chartLastQuery,
                   chartFetches>>
    /\ UNCHANGED <<vars_data, vars_panel, vars_stage1, vars_refresh, vars_downsample>>

ChartNext ==
    \/ \E c \in ChartCoins : SelectCrypto(c)
    \/ ClearSelection
    \/ \E tf \in ChartTimeframes : TimeframeChange(tf)
    \/ ChartRetry
    \/ \E k \in ChartKeys, answer \in ChartAnswers : ChartFetchSucceeds(k, answer)
    \/ \E k \in ChartKeys : ChartFetchFails(k)
    \/ ChartRerender
    \/ \E k \in ChartKeys : ChartGarbageCollect(k)

SpecChart == ChartInit /\ [][ChartNext]_vars

----------------------------------------------------------------------------
(* useAutoRefresh: the countdown and its one-second interval timer *)

\* the interval arguments explored: two short ones and App's 60000
Intervals == {2000, 3000, REFRESH_INTERVAL}

\* one second short of interval / 1000
FullCountdownShort(i) == (i \div 1000) - 1
\* interval / 1000
FullCountdown(i) == i \div 1000

\* the updater's test with the countdown let down to zero
ExpiredAtZero(prev) == prev <= 0
\* if (prev <= 1): the countdown has run out
Expired(prev) == prev <= 1

\* how many times React runs a state updater function: once, and in the
\* StrictMode tree of a development build possibly a second time
UpdaterRuns == IF strictDev THEN {1, 2} ELSE {1}

\* the effect's cleanup keeps the timer it closes over
ClearIntervalNothing(ts, t) == ts
\* clearInterval(t): timer t is no longer active (t = 0: nothing to clear)
ClearInterval(ts, t) == ts \ {t}

\* the main effect without its early return for isPaused
RunEffectAlways(paused, ts, created, ref) ==
    [timers |-> ts \cup {created + 1}, created |-> created + 1,
     ref |-> created + 1, closure |-> created + 1]

\* the main effect runs with isPaused = paused: nothing when paused, else
\* setInterval gives a new timer, kept in intervalRef and in the cleanup
RunEffect(paused, ts, created, ref) ==
    IF paused
    THEN [timers |-> ts, created |-> created, ref |-> ref, closure |-> NoTimer]
    ELSE [timers |-> ts \cup {created + 1}, created |-> created + 1,
          ref |-> created + 1, closure |-> created + 1]

\* the main effect's dependencies changed: cleanup of the last run, then a run
RerunEffect(paused, ts, created, ref, closure) ==
    RunEffect(paused, ClearInterval(ts, closure), created, ref)

\* the timer state takes the values of e, a result of RunEffect
SetTimers(e) ==
    /\ timers' = e.timers
    /\ timersCreated' = e.created
    /\ intervalRef' = e.ref
    /\ countdownInterval' = e.closure

RefreshInit ==
    /\ strictDev \in BOOLEAN
    /\ mounted = FALSE
    /\ interval \in Intervals
    /\ lastUpdated = 0
    /\ nextUpdateIn = FullCountdown(interval)
    /\ isPaused = FALSE
    /\ intervalRef = NoTimer
    /\ countdownInterval = NoTimer
    /\ timers = {}
    /\ timersCreated = 0
    /\ now = 0
    /\ onRefreshCalls = 0
    /\ Stage1Parked
    /\ ChartParked
    /\ DownsampleParked
    /\ RetryParked
    /\ FilterParked
    /\ CacheParked
    /\ PanelParked

\* the component mounts and its effects run; in the StrictMode tree of a
\* development build they run, are cleaned up and run again (a mount after
\* an unmount would be another instance of the hook, with its own state)
RefreshMount ==
    /\ ~mounted
    /\ timersCreated = 0
    /\ mounted' = TRUE
    /\ LET first == RunEffect(isPaused, timers, timersCreated, intervalRef)
       IN  IF strictDev
           THEN SetTimers(RerunEffect(isPaused, first.timers, first.created,
                                      first.ref, first.closure))
           ELSE SetTimers(first)
    /\ nextUpdateIn' = FullCountdown(interval)
    /\ UNCHANGED <<strictDev, interval, lastUpdated, isPaused, now, onRefreshCalls>>
    /\ UNCHANGED <<vars_data, vars_panel, vars_stage1, vars_chart, vars_downsample>>

\* timer t fires, a second after its last firing: the updater of
\* setNextUpdateIn runs, and at prev <= 1 each run of it calls refresh()
Tick(t) ==
    /\ mounted
    /\ t \in timers
    /\ now < MaxClock
    /\ now' = now + 1
    /\ IF Expired(nextUpdateIn)
       THEN \E runs \in UpdaterRuns :
              /\ onRefreshCalls + runs <= MaxRefreshCalls
              /\ onRefreshCalls' = onRefreshCalls + runs
              /\ lastUpdated' = now'
              /\ nextUpdateIn' = FullCountdown(interval)
       ELSE /\ nextUpdateIn' = nextUpdateIn - 1
            /\ UNCHANGED <<lastUpdated, onRefreshCalls>>
    /\ UNCHANGED <<strictDev, mounted, interval, isPaused, intervalRef,
                   countdownInterval, timers, timersCreated>>
    /\ UNCHANGED <<vars_data, vars_panel, vars_stage1, vars_chart, vars_downsample>>

\* a second passes with no timer to fire
TimePasses ==
    /\ mounted
    /\ timers = {}
    /\ now < MaxClock
    /\ now' = now + 1
    /\ UNCHANGED <<strictDev, mounted, interval, lastUpdated, nextUpdateIn, isPaused,
                   intervalRef, countdownInterval, timers, timersCreated,
                   onRefreshCalls>>
    /\ UNCHANGED <<vars_data, vars_panel, vars_stage1, vars_chart, vars_downsample>>

\* refresh(), called from outside (handleRefresh)
ManualRefresh ==
    /\ mounted
    /\ onRefreshCalls < MaxRefreshCalls
    /\ lastUpdated' = now
    /\ nextUpdateIn' = FullCountdown(interval)
    /\ onRefreshCalls' = onRefreshCalls + 1
    /\ UNCHANGED <<strictDev, mounted, interval, isPaused, intervalRef,
                   countdownInterval, timers, timersCreated, now>>
    /\ UNCHANGED <<vars_data, vars_panel, vars_stage1, vars_chart, vars_downsample>>

\* pause(): setIsPaused(true), clearRefreshInterval(); then, if isPaused
\* changed, the render's effect cleanup and an effect run that returns early
Pause ==
    /\ mounted
    /\ isPaused' = TRUE
    /\ LET cleared == ClearInterval(timers, intervalRef)
       IN  IF isPaused
           THEN /\ timers' = cleared
                /\ intervalRef' = NoTimer
                /\ UNCHANGED <<countdownInterval, timersCreated>>
           ELSE SetTimers(RerunEffect(TRUE, cleared, timersCreated, NoTimer,
                                      countdownInterval))
    /\ UNCHANGED <<strictDev, mounted, interval, lastUpdated, nextUpdateIn, now,
                   onRefreshCalls>>
    /\ UNCHANGED <<vars_data, vars_panel, vars_stage1, vars_chart, vars_downsample>>

\* resume(): setIsPaused(false); if isPaused changed, the effect runs again
Resume ==
    /\ mounted
    /\ timersCreated < MaxTimers
    /\ isPaused' = FALSE
    /\ IF isPaused
       THEN SetTimers(RerunEffect(FALSE, timers, timersCreated, intervalRef,
                                  countdownInterval))
       ELSE UNCHANGED <<timers, timersCreated, intervalRef, countdownInterval>>
    /\ UNCHANGED <<strictDev, mounted, interval, lastUpdated, nextUpdateIn, now,
                   onRefreshCalls>>
    /\ UNCHANGED <<vars_data, vars_panel, vars_stage1, vars_chart, vars_downsample>>

\* the component renders with another interval argument: the main effect
\* runs again and the second effect resets the countdown
ChangeInterval(i) ==
    /\ mounted
    /\ i # interval
    /\ timersCreated < MaxTimers
    /\ interval' = i
    /\ SetTimers(RerunEffect(isPaused, timers, timersCreated, intervalRef,
                             countdownInterval))
    /\ nextUpdateIn' = FullCountdown(i)
    /\ UNCHANGED <<strictDev, mounted, lastUpdated, isPaused, now, onRefreshCalls>>
    /\ UNCHANGED <<vars_data, vars_panel, vars_stage1, vars_chart, vars_downsample>>

\* the component unmounts: the main effect's cleanup runs
RefreshUnmount ==
    /\ mounted
    /\ mounted' = FALSE
    /\ timers' = ClearInterval(timers, countdownInterval)
    /\ UNCHANGED <<strictDev, interval, lastUpdated, nextUpdateIn, isPaused,
                   intervalRef, countdownInterval, timersCreated, now, onRefreshCalls>>
    /\ UNCHANGED <<vars_data, vars_panel, vars_stage1, vars_chart, vars_downsample>>

RefreshNext ==
    \/ RefreshMount
    \/ \E t \in 1 .. MaxTimers + 1 : Tick(t)
    \/ TimePasses
    \/ ManualRefresh
    \/ Pause
    \/ Resume
    \/ \E i \in Intervals : ChangeInterval(i)
    \/ RefreshUnmount

SpecRefresh == RefreshInit /\ [][RefreshNext]_vars

----------------------------------------------------------------------------
(* utils/chartUtils downsampleData *)

\* the prices a point can carry: two numbers, and NaN (a NaN price passes
\* validateChartData when another point of the series is valid)
Prices == {1, 3}
NaN == [price |-> 0, isNaN |-> TRUE]
Number(p) == [price |-> p, isNaN |-> FALSE]

\* ChartDataPoint; the timestamp of a point is its position in the series
ChartDataPoint(t, p) == [timestamp |-> t, price |-> p.price, isNaN |-> p.isNaN]

SeriesOf(prices) == [i \in 1 .. Len(prices) |-> ChartDataPoint(i, prices[i])]

\* every timestamp-ordered series of up to MaxSeriesLen points in which at
\* most one price is NaN (nanAt: its position, 0 for none)
AllSeries ==
    UNION {{SeriesOf([i \in 1 .. n |-> IF i = nanAt THEN NaN ELSE Number(ps[i])]) :
               ps \in [1 .. n -> Prices], nanAt \in 0 .. n} :
           n \in 0 .. MaxSeriesLen}

Abs(x) == IF x < 0 THEN 0 - x ELSE x

\* sum += data[j].price for the 0-based j in start .. end - 1
RECURSIVE SumPrices(_, _, _)
SumPrices(data, start, end) ==
    IF start >= end THEN 0
    ELSE data[start + 1].price + SumPrices(data, start + 1, end)

\* the bucket's first point whatever the prices
BestIndexFirst(data, start, end) == start

\* the point the bucket [start, end) contributes, as a 0-based index: the
\* first one farthest from the bucket's average; the distances are compared
\* multiplied by the bucket size, which keeps them integers.  With a NaN
\* price in the bucket every comparison is false and data[start] stays
BestIndex(data, start, end) ==
    LET js == {j \in start .. end - 1 : j < Len(data)}
        sum == SumPrices(data, start, end)
        diff(j) == Abs(data[j + 1].price * (end - start) - sum)
    IN  IF js = {} \/ \E j \in js : data[j + 1].isNaN THEN start
        ELSE CHOOSE j \in js :
                 /\ \A k \in js : diff(k) <= diff(j)
                 /\ \A k \in js : k < j => diff(k) < diff(j)

\* for (let i = 1; i < maxPoints - 1; i++)
Buckets(maxPoints) == 1 .. maxPoints - 2

\* the early return taken by the empty series only
FitsWhenEmpty(data, maxPoints) == Len(data) = 0
\* if (data.length <= maxPoints) return data
FitsAlready(data, maxPoints) == Len(data) <= maxPoints

\* downsampleData without the data[0] anchor
downsampleDataNoFirst(data, maxPoints) ==
    IF FitsAlready(data, maxPoints) THEN data
    ELSE <<data[Len(data)]>>

downsampleData(data, maxPoints) ==
    IF FitsAlready(data, maxPoints) THEN data
    ELSE LET bucketSize == Len(data) \div maxPoints
             n == Cardinality(Buckets(maxPoints))
             middle == [i \in 1 .. n |->
                          data[BestIndex(data, i * bucketSize,
                                         i * bucketSize + bucketSize) + 1]]
         IN  <<data[1]>> \o middle \o <<data[Len(data)]>>

DownsampleInit ==
    /\ rawData \in AllSeries
    /\ optimalPoints \in 0 .. MaxPointsArg
    /\ optimizedData = NotCalled
    /\ chartMaxPoints = 0
    /\ downsampled = NotCalled
    /\ Stage1Parked
    /\ ChartParked
    /\ RefreshParked
    /\ RetryParked
    /\ FilterParked
    /\ CacheParked
    /\ PanelParked

\* downsampleData(rawData, optimalPoints)
Downsample ==
    /\ ~optimizedData.done
    /\ optimizedData' = [done |-> TRUE, points |-> downsampleData(rawData, optimalPoints)]
    /\ UNCHANGED <<rawData, optimalPoints, chartMaxPoints, downsampled>>
    /\ UNCHANGED <<vars_data, vars_panel, vars_stage1, vars_chart, vars_refresh>>

\* the series already downsampled is downsampled again with maxPoints
DownsampleAgain(maxPoints) ==
    /\ optimizedData.done
    /\ ~downsampled.done
    /\ chartMaxPoints' = maxPoints
    /\ downsampled' = [done |-> TRUE,
                       points |-> downsampleData(optimizedData.points, maxPoints)]
    /\ UNCHANGED <<rawData, optimalPoints, optimizedData>>
    /\ UNCHANGED <<vars_data, vars_panel, vars_stage1, vars_chart, vars_refresh>>

DownsampleNext ==
    \/ Downsample
    \/ \E maxPoints \in 0 .. MaxPointsArg : DownsampleAgain(maxPoints)

SpecDownsample == DownsampleInit /\ [][DownsampleNext]_vars

----------------------------------------------------------------------------
(* utils/chartUtils validateChartData *)

\* the values a price field can hold, by what typeof, isNaN and isFinite say
\* of them: a finite number, NaN, Infinity, a numeric string, null
FiniteNumber == [typeof |-> "number", isNaN |-> FALSE, isFinite |-> TRUE]
NaNNumber == [typeof |-> "number", isNaN |-> TRUE, isFinite |-> FALSE]
InfiniteNumber == [typeof |-> "number", isNaN |-> FALSE, isFinite |-> FALSE]
NumericString == [typeof |-> "string", isNaN |-> FALSE, isFinite |-> TRUE]
NullValue == [typeof |-> "object", isNaN |-> FALSE, isFinite |-> TRUE]

PriceValues == {FiniteNumber, NaNNumber, InfiniteNumber, NumericString, NullValue}

\* timestamps: negative, zero, positive
TimestampValues == {-1, 0, 1}

ValidatePoints == [timestamp : TimestampValues, price : PriceValues]

\* a value that is not an array
NotAnArray == [isArray |-> FALSE, items |-> << >>]
ArrayOf(items) == [isArray |-> TRUE, items |-> items]

ValidateInputs ==
    {NotAnArray} \cup
    UNION {{ArrayOf(items) : items \in [1 .. n -> ValidatePoints]} :
           n \in 0 .. MaxValidateLen}

\* the filter predicate without its typeof test
IsValidPointAnyType(point) ==
    /\ point.timestamp > 0
    /\ ~point.price.isNaN
    /\ point.price.isFinite

\* the filter predicate of validPoints
IsValidPoint(point) ==
    /\ point.timestamp > 0
    /\ point.price.typeof = "number"
    /\ ~point.price.isNaN
    /\ point.price.isFinite

validateChartData(data) ==
    IF ~data.isArray THEN FALSE
    ELSE IF Len(data.items) = 0 THEN FALSE
    ELSE LET validPoints == SelectSeq(data.items, IsValidPoint)
         IN  Len(validPoints) > 0

ValidateInit ==
    /\ validateInput \in ValidateInputs
    /\ validateResult = "none"
    /\ RetryParked
    /\ FilterParked
    /\ CacheParked
    /\ Stage1Parked
    /\ ChartParked
    /\ RefreshParked
    /\ DownsampleParked
    /\ FetchParked
    /\ SearchParked

\* validateChartData(data)
Validate ==
    /\ validateResult = "none"
    /\ validateResult' = IF validateChartData(validateInput) THEN "true" ELSE "false"
    /\ UNCHANGED validateInput
    /\ UNCHANGED <<vars_data, vars_stage1, vars_chart, vars_refresh, vars_downsample,
                   vars_fetch, vars_search>>

ValidateNext == Validate

SpecValidate == ValidateInit /\ [][ValidateNext]_vars

----------------------------------------------------------------------------
(* One fetch of a query: useCryptoData, useCryptoFiltering and useChartData  *)
(* hand the cache a query function built on withRetry, and a retry option   *)

QueryKinds == {"list", "filter", "chart"}

\* the retry option of the query: retry: false, retry: false, retry: 1
QueryRetry(kind) == IF kind = "chart" THEN 1 ELSE 0

\* the second argument of the query function's withRetry call
QueryMaxRetries(kind) == IF kind = "chart" THEN 2 ELSE MAX_RETRIES

\* the transport call the query function wraps
QueryOperation(kind) ==
    IF kind = "chart" THEN "fetchChartData" ELSE "fetchCryptocurrencies"

\* a thrown ApiError: a plain object, not an instance of Error
ThrownApiError(err) ==
    [status |-> "error", instanceOfError |-> FALSE, message |-> err.message,
     detail |-> ""]
\* throw new Error(message); detail is the text interpolated into the message
ThrownError(message, detail) ==
    [status |-> "error", instanceOfError |-> TRUE, message |-> message,
     detail |-> detail]

QuerySuccess ==
    [status |-> "success", instanceOfError |-> FALSE, message |-> "", detail |-> ""]
QueryPending ==
    [status |-> "pending", instanceOfError |-> FALSE, message |-> "", detail |-> ""]

\* the words formatChartError looks for that occur in a message: none occurs
\* in the texts of ERROR_MESSAGES, in a server text, or in the message of
\* transformChartData; "429" occurs in the message of an AxiosError of a 429
NeedlesIn(message) ==
    IF message = "Request failed with status code 429" THEN {"429"} ELSE {}

\* utils/chartUtils formatChartError; the results are named
\*   CHART_RATE_LIMIT  'Limite de solicitudes excedido. Espera un momento ...'
\*   CHART_CONNECTION  'Error de conexion. Verifica tu conexion a internet.'
\*   CHART_LOAD        'Error al cargar datos: ' followed by error.message
\*   CHART_UNKNOWN     'Error desconocido al cargar el grafico.'
formatChartError(error) ==
    IF error.instanceOfError
    THEN IF "429" \in NeedlesIn(error.message)
            \/ "rate limit" \in NeedlesIn(error.message)
         THEN [message |-> "CHART_RATE_LIMIT", detail |-> ""]
         ELSE IF "network" \in NeedlesIn(error.message)
                 \/ "fetch" \in NeedlesIn(error.message)
         THEN [message |-> "CHART_CONNECTION", detail |-> ""]
         ELSE [message |-> "CHART_LOAD", detail |-> error.message]
    ELSE [message |-> "CHART_UNKNOWN", detail |-> ""]

\* catch (error) { throw new Error(formatChartError(error)) }
ChartQueryCatch(error) ==
    LET text == formatChartError(error)
    IN  ThrownError(text.message, text.detail)

\* the bodies a successful market_chart response can carry, as the rawData
\* transformChartData builds from them: a valid series, one whose only price
\* is NaN, an empty one
ChartPayloads ==
    {ArrayOf(<<[timestamp |-> 1, price |-> FiniteNumber]>>),
     ArrayOf(<<[timestamp |-> 1, price |-> NaNNumber]>>),
     ArrayOf(<< >>)}

\* what the query function does with the value withRetry returned
QueryFnReturns(kind, payload) ==
    IF kind = "chart" /\ ~validateChartData(payload)
    THEN ChartQueryCatch(ThrownError("INVALID_CHART_DATA", ""))
    ELSE QuerySuccess

\* what the query function rejects with when withRetry throws err
QueryFnThrows(kind, err) ==
    IF kind = "chart" THEN ChartQueryCatch(ThrownApiError(err))
    ELSE ThrownApiError(err)

\* the cache retries a failed run while failureCount < retry
ShouldRetry(kind, failureCount) == failureCount < QueryRetry(kind)

FetchInit ==
    /\ qKind \in QueryKinds
    /\ qPc = "idle"
    /\ qRuns = 0
    /\ qAttempt = 0
    /\ qCalls = 0
    /\ qLast = [kind |-> "none", response |-> FALSE, status |-> 0, error |-> ""]
    /\ qResult = QueryPending
    /\ RetryParked
    /\ FilterParked
    /\ CacheParked
    /\ Stage1Parked
    /\ ChartParked
    /\ RefreshParked
    /\ DownsampleParked
    /\ ValidateParked
    /\ SearchParked

\* the cache starts the fetch: first run of the query function
QueryFetchStart ==
    /\ qPc = "idle"
    /\ qPc' = "loop"
    /\ qRuns' = 1
    /\ qAttempt' = 0
    /\ UNCHANGED <<qKind, qCalls, qLast, qResult>>
    /\ UNCHANGED <<vars_data, vars_stage1, vars_chart, vars_refresh, vars_downsample,
                   vars_validate, vars_search>>

\* the run of the query function ended with the rejection e
QueryFnRejected(e) ==
    IF ShouldRetry(qKind, qRuns - 1)
    THEN /\ qPc' = "retryDelay"
         /\ UNCHANGED qResult
    ELSE /\ qPc' = "settled"
         /\ qResult' = e

\* one pass of the withRetry loop inside the query function, and, when the
\* loop ends, the rest of the query function and the cache's decision
QueryAttempt ==
    /\ qPc = "loop"
    /\ \E o \in OperationOutcomes(QueryOperation(qKind), "24h") :
         /\ qCalls' = qCalls + 1
         /\ qLast' = o
         /\ IF o.kind = "ok"
            THEN \E payload \in ChartPayloads :
                   LET r == QueryFnReturns(qKind, payload) IN
                   IF r.status = "success"
                   THEN /\ qPc' = "settled"
                        /\ qResult' = r
                   ELSE QueryFnRejected(r)
            ELSE LET err == handleApiError(o) IN
                 IF IsClientError(err) \/ IsLastAttempt(qAttempt, QueryMaxRetries(qKind))
                 THEN QueryFnRejected(QueryFnThrows(qKind, err))
                 ELSE /\ qPc' = "delay"
                      /\ UNCHANGED qResult
    /\ UNCHANGED <<qKind, qRuns, qAttempt>>
    /\ UNCHANGED <<vars_data, vars_stage1, vars_chart, vars_refresh, vars_downsample,
                   vars_validate, vars_search>>

\* the backoff delay of withRetry elapses
QueryDelayElapsed ==
    /\ qPc = "delay"
    /\ qAttempt' = NextAttempt(qAttempt)
    /\ qPc' = "loop"
    /\ UNCHANGED <<qKind, qRuns, qCalls, qLast, qResult>>
    /\ UNCHANGED <<vars_data, vars_stage1, vars_chart, vars_refresh, vars_downsample,
                   vars_validate, vars_search>>

\* retryDelay elapses: the cache runs the query function again
QueryRetryDelayElapsed ==
    /\ qPc = "retryDelay"
    /\ qPc' = "loop"
    /\ qRuns' = qRuns + 1
    /\ qAttempt' = 0
    /\ UNCHANGED <<qKind, qCalls, qLast, qResult>>
    /\ UNCHANGED <<vars_data, vars_stage1, vars_chart, vars_refresh, vars_downsample,
                   vars_validate, vars_search>>

FetchNext ==
    \/ QueryFetchStart
    \/ QueryAttempt
    \/ QueryDelayElapsed
    \/ QueryRetryDelayElapsed

SpecFetch == FetchInit /\ [][FetchNext]_vars

----------------------------------------------------------------------------
(* components/SearchBar: debounced search *)

\* a text is a sequence of characters: a letter, a blank, an angle bracket
Characters == {"b", " ", "<"}
QueryTexts == UNION {[1 .. n -> Characters] : n \in 0 .. MaxQueryLen}

\* String.prototype.trim
RECURSIVE TrimStart(_)
TrimStart(s) ==
    IF s # << >> /\ Head(s) = " " THEN TrimStart(Tail(s)) ELSE s
RECURSIVE TrimEnd(_)
TrimEnd(s) ==
    IF s # << >> /\ s[Len(s)] = " " THEN TrimEnd(SubSeq(s, 1, Len(s) - 1)) ELSE s
Trim(s) == TrimEnd(TrimStart(s))

\* utils/security sanitizeSearchQuery: .replace(/[<>]/g, ''), the replaces of
\* "javascript:", "on...=", "data:", "vbscript:" (none can occur in a text
\* over Characters), .slice(0, 100), .trim()
sanitizeSearchQuery(q) ==
    LET noAngles == SelectSeq(q, LAMBDA c : c \notin {"<", ">"})
        sliced == SubSeq(noAngles, 1, Min(Len(noAngles), 100))
    IN  Trim(sliced)

\* results state: the coins shown, and the query they were searched for
NoResults == [query |-> << >>, coins |-> 0]
\* response.coins.slice(0, 5) of a response with n coins for query q
ResultsFor(q, n) == [query |-> q, coins |-> Min(n, 5)]

\* number of coins a search response can carry
CoinCounts == {0, 1}

NoSearchTimer == [pending |-> FALSE, query |-> << >>]
\* setTimeout(..., 300) of the effect, closing over sanitizedQuery
SearchTimerFor(q) == [pending |-> TRUE, query |-> sanitizeSearchQuery(q)]

\* isOpen && results.length > 0: the dropdown is rendered
DropdownShown == isOpen /\ results.coins > 0

\* the component has mounted and its debounce effect has run once
SearchInit ==
    /\ query = << >>
    /\ results = NoResults
    /\ isOpen = FALSE
    /\ searchIsLoading = FALSE
    /\ searchTimer = SearchTimerFor(<< >>)
    /\ inFlight = {}
    /\ searches = 0
    /\ lastInput = "none"
    /\ RetryParked
    /\ FilterParked
    /\ CacheParked
    /\ Stage1Parked
    /\ ChartParked
    /\ RefreshParked
    /\ DownsampleParked
    /\ ValidateParked
    /\ FetchParked

\* onChange: setQuery(e.target.value); the effect on [query] is cleaned up
\* (clearTimeout) and runs again
HandleChange(q) ==
    /\ q # query
    /\ query' = q
    /\ searchTimer' = SearchTimerFor(q)
    /\ lastInput' = "change"
    /\ UNCHANGED <<results, isOpen, searchIsLoading, inFlight, searches>>
    /\ UNCHANGED <<vars_data, vars_stage1, vars_chart, vars_refresh, vars_downsample,
                   vars_validate, vars_fetch>>

\* onFocus: query.trim() && setIsOpen(true)
HandleFocus ==
    /\ Trim(query) # << >>
    /\ ~isOpen
    /\ isOpen' = TRUE
    /\ UNCHANGED <<query, results, searchIsLoading, searchTimer, inFlight, searches,
                   lastInput>>
    /\ UNCHANGED <<vars_data, vars_stage1, vars_chart, vars_refresh, vars_downsample,
                   vars_validate, vars_fetch>>

\* handleClickOutside: a mousedown outside the container
ClickOutside ==
    /\ isOpen
    /\ isOpen' = FALSE
    /\ UNCHANGED <<query, results, searchIsLoading, searchTimer, inFlight, searches,
                   lastInput>>
    /\ UNCHANGED <<vars_data, vars_stage1, vars_chart, vars_refresh, vars_downsample,
                   vars_validate, vars_fetch>>

\* the debounce timer fires
TimerFires ==
    /\ searchTimer.pending
    /\ searchTimer' = NoSearchTimer
    /\ IF searchTimer.query # << >>
       THEN /\ searches < MaxSearches
            /\ searchIsLoading' = TRUE
            /\ inFlight' = inFlight \cup {searchTimer.query}
            /\ searches' = searches + 1
            /\ UNCHANGED <<results, isOpen>>
       ELSE /\ results' = NoResults
            /\ isOpen' = FALSE
            /\ UNCHANGED <<searchIsLoading, inFlight, searches>>
    /\ UNCHANGED <<query, lastInput>>
    /\ UNCHANGED <<vars_data, vars_stage1, vars_chart, vars_refresh, vars_downsample,
                   vars_validate, vars_fetch>>

\* the request for q is answered: setResults, setIsOpen(true), and finally
\* setIsLoading(false)
SearchSucceeds(q, n) ==
    /\ q \in inFlight
    /\ inFlight' = inFlight \ {q}
    /\ results' = ResultsFor(q, n)
    /\ isOpen' = TRUE
    /\ searchIsLoading' = FALSE
    /\ UNCHANGED <<query, searchTimer, searches, lastInput>>
    /\ UNCHANGED <<vars_data, vars_stage1, vars_chart, vars_refresh, vars_downsample,
                   vars_validate, vars_fetch>>

\* the request for q fails: setResults([]), and finally setIsLoading(false)
SearchFails(q) ==
    /\ q \in inFlight
    /\ inFlight' = inFlight \ {q}
    /\ results' = NoResults
    /\ searchIsLoading' = FALSE
    /\ UNCHANGED <<query, isOpen, searchTimer, searches, lastInput>>
    /\ UNCHANGED <<vars_data, vars_stage1, vars_chart, vars_refresh, vars_downsample,
                   vars_validate, vars_fetch>>

\* the effect on [query] after a handler set query to the empty text
EffectAfterEmptied ==
    IF query # << >> THEN SearchTimerFor(<< >>) ELSE searchTimer

\* handleSelect: a result of the dropdown is clicked
HandleSelect ==
    /\ DropdownShown
    /\ query' = << >>
    /\ isOpen' = FALSE
    /\ searchTimer' = EffectAfterEmptied
    /\ lastInput' = "select"
    /\ UNCHANGED <<results, searchIsLoading, inFlight, searches>>
    /\ UNCHANGED <<vars_data, vars_stage1, vars_chart, vars_refresh, vars_downsample,
                   vars_validate, vars_fetch>>

\* handleClear: the button is rendered while query is not empty.  Its
\* inputRef.current?.focus() raises a focus event when the input had lost
\* the focus to the button (refocus); onFocus then runs with the query of
\* the committed render, after setIsOpen(false)
HandleClear ==
    /\ query # << >>
    /\ \E refocus \in BOOLEAN :
         isOpen' = (refocus /\ Trim(query) # << >>)
    /\ query' = << >>
    /\ results' = NoResults
    /\ searchTimer' = EffectAfterEmptied
    /\ lastInput' = "clear"
    /\ UNCHANGED <<searchIsLoading, inFlight, searches>>
    /\ UNCHANGED <<vars_data, vars_stage1, vars_chart, vars_refresh, vars_downsample,
                   vars_validate, vars_fetch>>

SearchNext ==
    \/ \E q \in QueryTexts : HandleChange(q)
    \/ HandleFocus
    \/ ClickOutside
    \/ TimerFires
    \/ \E q \in QueryTexts, n \in CoinCounts : SearchSucceeds(q, n)
    \/ \E q \in QueryTexts : SearchFails(q)
    \/ HandleSelect
    \/ HandleClear

SpecSearch == SearchInit /\ [][SearchNext]_vars

----------------------------------------------------------------------------
(* Properties of withRetry *)

Done == pc \in {"returned", "thrown"}

\* the claim's own reading of the error classes, stated on the raw outcome
ClientRejected(o) ==
    o.kind = "axios" /\ o.response /\ o.status >= 400 /\ o.status < 500 /\ o.status # 429
Retryable(o) ==
    o.kind = "axios" /\ (~o.response \/ o.status = 429 \/ o.status >= 500)

\* C1 (as stated): withRetry never invokes the operation more than the
\* configured number (3 with the default configuration) of times in total.
C1_AtMostMaxAttempts == (maxRetries = MAX_RETRIES) => calls <= 3

\* C1 (amended): withRetry never invokes the operation more than
\* maxRetries + 1 times in total (4 with the default MAX_RETRIES = 3).
C1_AtMostMaxRetriesPlusOne ==
    /\ calls <= maxRetries + 1
    /\ (maxRetries = MAX_RETRIES => calls <= 4)

C1_Witness ==
    pc = "thrown" /\ maxRetries = MAX_RETRIES /\ calls = 4
    /\ \A i \in 1 .. Len(history) : Retryable(history[i])

\* C2: k retryable failures followed by a success, with k within the budget,
\* give the success value after exactly k+1 invocations: withRetry returns as
\* soon as an invocation succeeds, and it never gives up on retryable failures
\* while fewer than maxRetries + 1 invocations have been made.
C2_RetryThenSuccess ==
    /\ pc = "returned" =>
          /\ result = "value"
          /\ calls = Len(history)
          /\ history[Len(history)] = Success
          /\ \A i \in 1 .. Len(history) - 1 : history[i] # Success
    /\ (pc = "thrown" /\ \A i \in 1 .. Len(history) : Retryable(history[i])) =>
          Len(history) = maxRetries + 1
    /\ (~Done /\ \A i \in 1 .. Len(history) : Retryable(history[i])) =>
          calls = Len(history) /\ (calls <= maxRetries \/ maxRetries < 0)

C2_Witness ==
    /\ pc = "returned" /\ result = "value" /\ maxRetries = 3 /\ calls = 3
    /\ history = <<HttpError(500), HttpError(500), Success>>

\* C3: a client rejection (HTTP 4xx other than 429) ends withRetry at once:
\* it is the last invocation, no delay follows it, and the classified error
\* raised carries its status; when it is the first failure the operation was
\* invoked exactly once and no delay was awaited at all.
C3_ClientRejectedNotRetried ==
    /\ \A i \in 1 .. Len(history) :
          ClientRejected(history[i]) =>
             /\ i = Len(history)
             /\ pc = "thrown"
             /\ result = "error"
             /\ lastError.status = history[i].status
             /\ Len(delays) = i - 1
    /\ (Len(history) >= 1 /\ ClientRejected(history[1])) =>
          calls = 1 /\ delays = << >>

C3_Witness ==
    pc = "thrown" /\ history = <<HttpError(404)>> /\ calls = 1 /\ delays = << >>
    /\ lastError.status = 404 /\ maxRetries = MAX_RETRIES

\* C4: a configuration defect (fetchChartData called with an unknown
\* timeframe tag) is never retried: the operation is invoked exactly once and
\* no backoff delay is awaited.
C4_ConfigErrorNotRetried ==
    (Len(history) >= 1 /\ history[1].kind = "InvalidTimeframe") =>
        calls = 1 /\ delays = << >>

\* C5: the wait after failed attempt i (from 0) is min(1000 * 2^i, 10000) ms,
\* no wait exceeds 10000 ms, and a wait only ever sits between a failed attempt
\* and the next one: none follows a success or the final failed attempt.
C5_BackoffSchedule ==
    /\ \A i \in 1 .. Len(delays) :
          /\ delays[i] = Min(1000 * Pow(2, i - 1), 10000)
          /\ delays[i] = getRetryDelay(i - 1)
          /\ delays[i] <= 10000
          /\ history[i] # Success
    /\ pc = "delay" => Len(delays) = calls
    /\ pc = "loop" => Len(delays) = calls
    /\ (Done /\ calls > 0) => Len(delays) = calls - 1
    /\ (Done /\ calls = 0) => delays = << >>

C5_Witness ==
    pc = "thrown" /\ delays = <<1000, 2000, 4000, 8000, 10000>> /\ calls = 6

----------------------------------------------------------------------------
(* Properties of the shared query cache *)

\* the query-function runs started for key k, over every client
RunsFor(k) ==
    Cardinality({ci \in Clients \X (1 .. MaxRuns + 1) : ci[2] <= listRuns[<<ci[1], k>>]})

\* C6: while no result for a key has resolved yet, the readers that asked for
\* the key have caused exactly one run of its query function between them,
\* and at any time all readers mounted on one key hold the same result (the
\* same value or the same failure).
C6_SingleFlight ==
    /\ \A k \in ListKeys :
          ~resolved[k] => RunsFor(k) = (IF requested[k] = {} THEN 0 ELSE 1)
    /\ \A r1, r2 \in Readers :
          (mountedKey[r1] # NoKey /\ mountedKey[r1] = mountedKey[r2]) =>
             readerResult[r1] = readerResult[r2]

C6_Witness ==
    LET k == cryptoKeys_list(1, 50) IN
    /\ requested[k] = Readers
    /\ \A r \in Readers : mountedKey[r] = k /\ readerResult[r].status = "success"
    /\ RunsFor(k) = 1
    /\ resolved[k]

----------------------------------------------------------------------------
(* Properties of the filter resolver *)

\* the query of the selected filter, and whether a remote result for it exists
currentQuery == queries[filterType]
RemoteResolved == currentQuery.data.defined

\* C7: escalation (needsApiCall) holds if and only if the filter is not ALL
\* and the Stage-1 result has fewer than minResultsThreshold records; with
\* ALL it never holds.
C7_EscalationRule ==
    /\ needsApiCall <=>
          (filterType # "all" /\ Len(clientFiltered) < minResultsThreshold)
    /\ filterType = "all" => ~needsApiCall

C7_Witness ==
    /\ filterType = "winners"
    /\ minResultsThreshold = MIN_RESULTS_THRESHOLD
    /\ Len(clientFiltered) = 1
    /\ needsApiCall
    /\ currentQuery.fetchStatus = "fetching"

\* C8: the returned list is the Stage-1 output when escalation is not
\* required, the remote output when escalation is required and the remote
\* fetch has resolved, and the Stage-1 output when escalation is required and
\* the remote fetch has not resolved.
C8_ResultSelection ==
    filteredCryptos =
        IF ~needsApiCall THEN clientFiltered
        ELSE IF RemoteResolved THEN currentQuery.data.list
        ELSE clientFiltered

\* C9: isClientFiltering is true exactly when the returned list is the
\* Stage-1 output and false exactly when it is the remote output.
C9_FlagMatchesSource ==
    /\ isClientFiltering => filteredCryptos = clientFiltered
    /\ ~isClientFiltering => (apiData.defined /\ filteredCryptos = apiData.list)

\* the remote fetch of the selected filter has failed and escalation is required
Stage2Failed == needsApiCall /\ currentQuery.status = "error"

\* C10 (as stated): after a Stage-2 failure isError is true and the returned
\* list is the Stage-1 output.
C10_FailureShowsStage1 ==
    Stage2Failed => (isError /\ filteredCryptos = clientFiltered)

\* the step in which the run of the selected filter's query fails
Stage2FailStep ==
    /\ currentQuery.fetchStatus = "fetching"
    /\ currentQuery'.fetchStatus = "idle"
    /\ currentQuery'.status = "error"
    /\ UNCHANGED <<filterType, allCryptos>>

\* C10 (amended): after a Stage-2 failure isError is true and the returned
\* list is the Stage-1 output, unless a non-empty result of an earlier
\* successful Stage-2 fetch for the same filter is still cached, which then
\* stays displayed; the failure never empties the list and never replaces a
\* Stage-1 output that was being returned.
C10_FailureDegradesGracefully ==
    /\ [](Stage2Failed =>
            /\ isError
            /\ filteredCryptos =
                  IF RemoteResolved /\ Len(currentQuery.data.list) > 0
                  THEN currentQuery.data.list
                  ELSE clientFiltered
            /\ (clientFiltered # << >> => filteredCryptos # << >>))
    /\ [][(Stage2FailStep /\ needsApiCall /\ filteredCryptos = clientFiltered)
             => (isError' /\ filteredCryptos' = clientFiltered')]_vars

C10_Witness ==
    /\ Stage2Failed
    /\ ~RemoteResolved
    /\ isError
    /\ clientFiltered # << >>
    /\ filteredCryptos = clientFiltered
    /\ fetches >= 1

----------------------------------------------------------------------------
(* Properties of stage 1 *)

\* the changes of a record set, by position
Changes(all) == [i \in 1 .. Len(all) |-> Change(all[i])]

\* t is the value found at 0-based index k when chg is sorted descending
IsDescendingAt(chg, k, t) ==
    /\ \E i \in 1 .. Len(chg) : chg[i] = t
    /\ Cardinality({i \in 1 .. Len(chg) : chg[i] > t}) <= k
    /\ Cardinality({i \in 1 .. Len(chg) : chg[i] >= t}) >= k + 1

\* t is the value found at 0-based index k when chg is sorted ascending
IsAscendingAt(chg, k, t) ==
    /\ \E i \in 1 .. Len(chg) : chg[i] = t
    /\ Cardinality({i \in 1 .. Len(chg) : chg[i] < t}) <= k
    /\ Cardinality({i \in 1 .. Len(chg) : chg[i] <= t}) >= k + 1

Stage1ThresholdIndex ==
    CeilDiv(Len(stage1Args.allCryptos) * stage1Args.dynamicThresholdPercentage, 100)

Stage1Signed ==
    /\ stage1Memo.computed
    /\ stage1Args.filterType \in {"winners", "losers"}
    /\ stage1Args.allCryptos # << >>

\* C11: for winners and losers and every local record set, every record of
\* the stage-1 result has the sign of its filter (winners > 0, losers < 0)
\* and lies on the filter's side of the threshold (winners >= threshold,
\* losers <= threshold), the threshold being the change found at index
\* ceil(length * percentage) of the set sorted descending (winners) or
\* ascending (losers), and 0 when the set has no such index
C11_Stage1SignAndThreshold ==
    Stage1Signed =>
      LET all == stage1Args.allCryptos
          ft == stage1Args.filterType
          out == stage1Memo.clientFiltered
          t == stage1Memo.threshold
          k == Stage1ThresholdIndex
      IN  /\ IF k >= Len(all) THEN t = 0
             ELSE IF ft = "winners" THEN IsDescendingAt(Changes(all), k, t)
             ELSE IsAscendingAt(Changes(all), k, t)
          /\ \A i \in 1 .. Len(out) :
                /\ \E j \in 1 .. Len(all) : all[j] = out[i]
                /\ IF ft = "winners"
                   THEN Change(out[i]) > 0 /\ Change(out[i]) >= t
                   ELSE Change(out[i]) < 0 /\ Change(out[i]) <= t

\* winners over four records at one half: the threshold is read at index 2,
\* it is positive, one gaining record passes and another stays below it
C11_Witness ==
    /\ Stage1Signed
    /\ stage1Args.filterType = "winners"
    /\ Len(stage1Args.allCryptos) = 4
    /\ Stage1ThresholdIndex = 2
    /\ stage1Memo.threshold = 2
    /\ Len(stage1Memo.clientFiltered) >= 1
    /\ \E j \in 1 .. 4 : Change(stage1Args.allCryptos[j]) = 1

----------------------------------------------------------------------------
(* Properties of the chart *)

\* a result arrives for a key that is no longer the selected one
LateResult ==
    \E k \in ChartKeys :
        /\ k # chartKey
        /\ chartQueries[k].fetchStatus = "fetching"
        /\ chartQueries'[k].fetchStatus = "idle"

\* C12: when the selected key (coinId, timeframe) changed before an earlier
\* fetch for the previous key resolved, the earlier result is never applied
\* to the series exposed for the current key: as long as the key stays
\* selected, the series PriceChart is given changes only when the key's own
\* query changes
C12_LateResultDiscarded ==
    [][(chartKey' = chartKey /\ chartQueries'[chartKey] = chartQueries[chartKey])
          => displayChartData' = displayChartData]_vars

----------------------------------------------------------------------------
(* Properties of the refresh scheduler *)

\* a step in which an interval timer fired
TickStep == mounted /\ timers # {} /\ now' = now + 1

\* C13: each one-second tick while not paused decrements the countdown by
\* one, and each time the countdown expires the refresh callback is invoked
\* exactly once and the countdown is reset to interval / 1000
C13_TickCountsDownRefreshesOnce ==
    [][TickStep =>
         IF nextUpdateIn <= 1
         THEN /\ onRefreshCalls' = onRefreshCalls + 1
              /\ nextUpdateIn' = interval \div 1000
         ELSE /\ onRefreshCalls' = onRefreshCalls
              /\ nextUpdateIn' = nextUpdateIn - 1]_vars

\* C14: refresh() can be called in any state of the mounted hook (any
\* countdown, paused or not), and the call at once sets the countdown to
\* interval / 1000, sets the last-updated timestamp to the current time and
\* invokes the refresh callback once
C14_ManualRefreshResets ==
    /\ []((mounted /\ onRefreshCalls < MaxRefreshCalls) => ENABLED ManualRefresh)
    /\ [][ManualRefresh =>
            /\ nextUpdateIn' = interval \div 1000
            /\ lastUpdated' = now
            /\ onRefreshCalls' = onRefreshCalls + 1
            /\ now' = now
            /\ isPaused' = isPaused /\ timers' = timers]_vars

\* a manual refresh has just pre-empted a countdown that was under way while
\* the scheduler was paused, later than the previous update
C14_Witness ==
    /\ mounted
    /\ isPaused
    /\ onRefreshCalls = 1
    /\ now = 3
    /\ lastUpdated = 3
    /\ nextUpdateIn = 3
    /\ interval = 3000

\* C15: from pause() until resume() no tick fires: no timer is active, and
\* the countdown, the last-updated timestamp and the callback count move
\* only by a refresh() call or a new interval argument; pause() and resume()
\* leave the countdown and the timestamp as they are, and resume() restarts
\* the ticking from the countdown held
C15_PausedIsFrozen ==
    /\ []((mounted /\ isPaused) => timers = {})
    /\ [][(isPaused /\ isPaused' /\ interval' = interval
                /\ onRefreshCalls' = onRefreshCalls)
            => (nextUpdateIn' = nextUpdateIn /\ lastUpdated' = lastUpdated)]_vars
    /\ [][(isPaused /\ now' # now)
            => (onRefreshCalls' = onRefreshCalls /\ nextUpdateIn' = nextUpdateIn)]_vars
    /\ [][(isPaused' # isPaused)
            => /\ nextUpdateIn' = nextUpdateIn
               /\ lastUpdated' = lastUpdated
               /\ onRefreshCalls' = onRefreshCalls
               /\ (isPaused => timers' # {})]_vars

\* paused in the middle of a countdown, seconds went by, then resumed: the
\* countdown is where it was and a timer is ticking again
C15_Witness ==
    /\ mounted
    /\ ~isPaused
    /\ timersCreated >= 2
    /\ timers # {}
    /\ interval = 3000
    /\ nextUpdateIn = 2
    /\ now = 4
    /\ lastUpdated = 0

\* C16: after any sequence of pause, resume, manual refresh, interval
\* changes and ticks at most one tick timer is active for the scheduler,
\* none while it is paused and none after it is unmounted
C16_AtMostOneTimer ==
    /\ Cardinality(timers) <= 1
    /\ (isPaused => timers = {})
    /\ (~mounted => timers = {})
    /\ (timers # {} => timers = {intervalRef})

\* the fourth timer of the scheduler is the only one active
C16_Witness ==
    /\ mounted
    /\ timersCreated = MaxTimers
    /\ timers = {MaxTimers}
    /\ onRefreshCalls >= 1

----------------------------------------------------------------------------
(* Properties of downsampleData *)

\* C17: for every series and every maxPoints the length of
\* downsampleData(series, maxPoints) is at most maxPoints and at least
\* min(len(series), 2)
C17_LengthBounds ==
    optimizedData.done =>
        /\ Len(optimizedData.points) <= optimalPoints
        /\ Len(optimizedData.points) >= Min(Len(rawData), 2)

\* C18: downsampleData(s, n) is s itself whenever len(s) <= n, and applying
\* downsampleData twice with the same n gives what applying it once gives
C18_IdentityAndIdempotent ==
    /\ (optimizedData.done /\ Len(rawData) <= optimalPoints)
          => optimizedData.points = rawData
    /\ optimizedData.done
          => downsampleData(optimizedData.points, optimalPoints) = optimizedData.points
    /\ (downsampled.done /\ chartMaxPoints = optimalPoints)
          => downsampled.points = optimizedData.points

\* a nine-point series was reduced to four points, and the second call with
\* the same maxPoints has returned
C18_Witness ==
    /\ downsampled.done
    /\ chartMaxPoints = optimalPoints
    /\ Len(rawData) = 9
    /\ optimalPoints = 4
    /\ Len(downsampled.points) = 4

\* C19: for a series longer than maxPoints the first element of the result
\* is the first input point and the last element is the last input point
C19_AnchorsKept ==
    (optimizedData.done /\ Len(rawData) > optimalPoints) =>
        /\ Len(optimizedData.points) >= 1
        /\ optimizedData.points[1] = rawData[1]
        /\ optimizedData.points[Len(optimizedData.points)] = rawData[Len(rawData)]

\* a nine-point series reduced with maxPoints 3: a bucket of three points
\* between the anchors, the bucket's last point chosen
C19_Witness ==
    /\ optimizedData.done
    /\ Len(rawData) = 9
    /\ optimalPoints = 3
    /\ Len(optimizedData.points) = 3
    /\ optimizedData.points[2].timestamp = 6

\* C20: the result for a timestamp-ordered series is timestamp-ordered:
\* every output point is an input point and the output points come in
\* strictly increasing input order, none repeated, the final anchor after
\* the last bucket's point
C20_OrderedSubsequence ==
    optimizedData.done =>
        LET out == optimizedData.points
        IN  /\ \A i \in 1 .. Len(out) : \E j \in 1 .. Len(rawData) : out[i] = rawData[j]
            /\ \A i \in 1 .. Len(out) - 1 : out[i].timestamp < out[i + 1].timestamp

\* the order holds whenever maxPoints is at least 1
OrderedForPositiveMaxPoints ==
    (optimizedData.done /\ optimalPoints >= 1) => C20_OrderedSubsequence

----------------------------------------------------------------------------
(* Properties of the buckets of downsampleData *)

\* the series was longer than maxPoints and has been reduced
Reduced == optimizedData.done /\ Len(rawData) > optimalPoints /\ optimalPoints >= 1

\* the 0-based input indices bucket i is read from
BucketRange(i) ==
    LET bucketSize == Len(rawData) \div optimalPoints
    IN  {j \in i * bucketSize .. i * bucketSize + bucketSize - 1 : j < Len(rawData)}

\* C21: for a series longer than maxPoints the buckets are maxPoints - 2
\* contiguous, pairwise disjoint index ranges of size floor(length /
\* maxPoints), and every input point other than the first and the last
\* belongs to exactly one bucket
C21_BucketsPartitionInterior ==
    Reduced =>
        LET bucketSize == Len(rawData) \div optimalPoints
            buckets == Buckets(optimalPoints)
        IN  /\ Cardinality(buckets) = (IF optimalPoints >= 2 THEN optimalPoints - 2 ELSE 0)
            /\ \A i \in buckets : Cardinality(BucketRange(i)) = bucketSize
            /\ \A i, k \in buckets : i # k => BucketRange(i) \cap BucketRange(k) = {}
            /\ \A j \in 1 .. Len(rawData) - 2 :
                   Cardinality({i \in buckets : j \in BucketRange(i)}) = 1

\* C22: the point emitted for a bucket is a point of that bucket, and no
\* point of the bucket lies farther from the arithmetic mean of the bucket's
\* values than it (the distances are compared multiplied by the bucket size)
C22_LargestDeviationChosen ==
    Reduced =>
        \A i \in Buckets(optimalPoints) :
            LET range == BucketRange(i)
                size == Cardinality(range)
                sum == SumPrices(rawData, i * size, i * size + size)
                emitted == optimizedData.points[i + 1]
            IN  /\ emitted.timestamp - 1 \in range
                /\ emitted = rawData[emitted.timestamp]
                /\ (\A j \in range : ~rawData[j + 1].isNaN)
                      => \A j \in range :
                             Abs(rawData[j + 1].price * size - sum)
                                 <= Abs(emitted.price * size - sum)

\* nine points, maxPoints 3: the bucket holds prices 1, 1, 3 and its last
\* point, the farthest from the mean 5/3, is the one emitted
C22_Witness ==
    /\ Reduced
    /\ Len(rawData) = 9
    /\ optimalPoints = 3
    /\ rawData[4].price = 1 /\ rawData[5].price = 1 /\ rawData[6].price = 3
    /\ ~rawData[4].isNaN /\ ~rawData[5].isNaN /\ ~rawData[6].isNaN
    /\ optimizedData.points[2] = rawData[6]

----------------------------------------------------------------------------
(* Properties of the classified errors *)

\* the one message an error kind would carry: by status, as handleApiError
\* tells the kinds apart
KindMessage(status) ==
    IF status = 429 THEN "RATE_LIMIT"
    ELSE IF status = 0 THEN "NETWORK_ERROR"
    ELSE "GENERIC"

\* C24: every classified error carries one of the fixed generic messages, the
\* one of its kind, and never a text supplied by the server response or by the
\* thrown exception.
C24_MessagesAreGeneric ==
    lastError # NoError =>
        /\ lastError.message \in ERROR_MESSAGES
        /\ lastError.message = KindMessage(lastError.status)
        /\ lastError.message \notin ServerTexts

----------------------------------------------------------------------------
(* Properties of validateChartData *)

\* a point with a positive timestamp and a finite, non-NaN, numeric value
FullyValid(point) ==
    /\ point.timestamp > 0
    /\ point.price = FiniteNumber

HasFullyValidPoint(data) ==
    \E i \in 1 .. Len(data.items) : FullyValid(data.items[i])

\* C23: validateChartData returns false exactly when the input is not an
\* array, is empty, or has no point with both a positive timestamp and a
\* finite non-NaN numeric value; a series with NaN values and one fully valid
\* point is accepted, an all-NaN series is rejected.
C23_ValidateExactly ==
    validateResult # "none" =>
        /\ validateResult = "false" <=>
               \/ ~validateInput.isArray
               \/ Len(validateInput.items) = 0
               \/ ~HasFullyValidPoint(validateInput)
        /\ (/\ validateInput.isArray
             /\ Len(validateInput.items) > 0
             /\ \A i \in 1 .. Len(validateInput.items) :
                    validateInput.items[i].price = NaNNumber)
               => validateResult = "false"

\* a series with a NaN price and a fully valid point was accepted
C23_Witness ==
    /\ validateResult = "true"
    /\ validateInput.isArray
    /\ \E i \in 1 .. Len(validateInput.items) :
           validateInput.items[i].price = NaNNumber
    /\ HasFullyValidPoint(validateInput)

----------------------------------------------------------------------------
(* Properties of a query fetch *)

ChartFetchFailed == qKind = "chart" /\ qPc = "settled" /\ qResult.status = "error"

\* C25: a chart fetch that fails on HTTP 429 with the retries used up
\* surfaces the rate-limit message, and one that fails for lack of network
\* surfaces the connection-error message.
C25_ChartErrorKindsDistinguished ==
    ChartFetchFailed =>
        /\ (qLast.response /\ qLast.status = 429) =>
               qResult.message \in {"CHART_RATE_LIMIT", "RATE_LIMIT"}
        /\ (qLast.kind = "axios" /\ ~qLast.response) =>
               qResult.message \in {"CHART_CONNECTION", "NETWORK_ERROR"}

\* C26: in one fetch the cache runs the query function at most once, so the
\* fetch issues no more transport calls than the attempts of one withRetry
\* call.
C26_OneRunPerFetch ==
    /\ qRuns <= 1
    /\ qCalls <= QueryMaxRetries(qKind) + 1

----------------------------------------------------------------------------
(* Properties of the list and the error flag of the filter resolver *)

\* the sign predicate of filter ft
SignOf(c, ft) ==
    IF ft = "winners" THEN Change(c) > 0
    ELSE IF ft = "losers" THEN Change(c) < 0
    ELSE TRUE

\* C27: every record of the list the resolver returns satisfies the sign
\* predicate of the selected filter (winners: 24h change > 0, losers: 24h
\* change < 0), also while the remote fetch of a newly selected filter is
\* unresolved.
C27_ListMatchesSelectedFilter ==
    \A i \in 1 .. Len(filteredCryptos) : SignOf(filteredCryptos[i], filterType)

\* C28: isError is reported only while escalation is required; when the
\* stage-1 result suffices no error of an earlier remote fetch is reported.
C28_ErrorOnlyWhenEscalating == isError => needsApiCall

----------------------------------------------------------------------------
(* Properties of the countdown *)

----------------------------------------------------------------------------
(* Properties of the search bar *)

\* C29: once the user has cleared the query or selected a result, no result
\* list is shown until the query text changes again, even if a search issued
\* for an earlier query completes afterwards; the results shown always belong
\* to the latest query.
C29_NoStaleResults ==
    /\ lastInput \in {"clear", "select"} => ~DropdownShown
    /\ DropdownShown => results.query = sanitizeSearchQuery(query)

====
